---------------------------- MODULE Spec2Model ----------------------------
(***************************************************************************)
(* Model of the shielded-sync pipeline of crates/sdk/src/masp/utils.rs:    *)
(*   - the fetch queue (FetchQueueSender / FetchQueueReceiver over the     *)
(*     shared Unscanned cache and a flume liveness channel);               *)
(*   - the persistence task manager (TaskManager actor and its             *)
(*     TaskManagerChannel callers over a bounded tokio mpsc channel and a  *)
(*     futures_locks mutex around the ShieldedContext).                    *)
(* Beside them: the extraction of the shielded payload of a transaction    *)
(* (extract_masp_tx), the composition of events and the dispatch on their  *)
(* attributes (core/src/event/extend.rs), the EventType text and the       *)
(* IbcEvent order (core/src/event.rs, core/src/ibc/event.rs), the shielded *)
(* pool validity predicate (wasm_source/src/vp_masp.rs) and the execution  *)
(* of governance proposals (apps/.../shell/governance.rs).                 *)
(* Each component has its own next-state relation and specification; the   *)
(* variables of the other components stay unchanged.                       *)
(***************************************************************************)
EXTENDS Integers, Sequences, FiniteSets, TLC

(***************************************************************************)
(* Bounds of the model.                                                    *)
(***************************************************************************)
\* Block heights are 1..MaxHeight.
MaxHeight == 3
\* Total number of send() calls in a behaviour.
MaxSends == 3

Heights == 1..MaxHeight
\* In-block transaction indexes of an IndexedTx.
TxIndexes == {0}
\* An IndexedTx is <<height, index>>; an entry of the cache is identified
\* by its IndexedTx (the payload is a function of the ledger position).
IndexedTxs == Heights \X TxIndexes
\* FetchQueueSender handles: the original and one clone.
Senders == {1, 2}
\* Receiver handles (FetchQueueReceiver derives Clone).
Receivers == {1}
\* The handle of the session and the clone the scan stage may make of it.
ReceiverHandles == Receivers \cup {2}
NoEntry == <<0, 0>>
\* The heights contains_height is asked about.
QueriedHeights == {2}
NoQuery == <<0, FALSE>>
\* The last_query_height given to fetch_channel::new: the first height of
\* the chain, or its tip.
LastQueryHeights == {1, MaxHeight}
\* size_hint's (usize, Option<usize>): tag "Some" with the two bounds; or
\* the two outcomes of a u64 subtraction below zero: tag "Panic" where
\* overflow is checked, tag "Wrapped" with lo = hi = k standing for the
\* bounds 2^64 - k where it is not.
NoHint == [tag |-> "none", lo |-> 0, hi |-> 0]

VARIABLES
    \* ---- fetch queue ----
    cache,        \* Unscanned: the set of cached entries (keys of the map)
    lastFetched,  \* flume channel buffer: heights published by send()
    spc,          \* per sender handle: "unused", "idle", "insert", "dropped", "panicked"
    sdata,        \* per sender handle: the entry of the send() in progress
    rpc,          \* per receiver handle: "unused", "idle", "poll", "polltry", "dropped"
    yielded,      \* per receiver handle: entries returned by next(), in order
    lastRet,      \* per receiver handle: "none" (no call finished / call pending), "Some", "None"
    \* history of the fetch queue, read only by the properties
    sent,         \* entries passed to send()
    nsends,       \* number of send() calls so far
    lateSend,     \* an entry was inserted below an entry already yielded
    firstNext,    \* "notyet", or the sending side at the first next(): "closed" / "open"
    containsRet,  \* <<h, b>>: the queue's last step was contains_height(h) returning b;
                  \* NoQuery after any other step of the queue
    lastQueryHeight, \* FetchQueueReceiver::last_query_height
    sizeRet,      \* what size_hint returned, when it was the queue's last step;
                  \* NoHint after any other step of the queue
    \* ---- persistence task manager ----
    ctx,          \* the ShieldedContext behind the mutex: [vk: checkpoint map,
                  \* wit: the witness map, the entry of each commitment in position order]
    lock,         \* owner of the futures_locks mutex: Free, Actor or a caller
    chan,         \* buffer of the tokio mpsc request channel
    apc,          \* TaskManager::run: "recv", "lock", "save", "returned"
    latestHeight, \* TaskManager::latest_height
    mgrDropped,   \* the TaskManager (the channel's receiver) was dropped
    durable,      \* the ShieldedContext last written to durable storage
    cpc,          \* per caller handle: "unused", "idle", "acquire", "apply", "send", "dropped", "panicked"
    cop,          \* per caller handle: the call in progress or last finished:
                  \* [op, h, t, k, n: arguments (height, entry, viewing key, number of
                  \*  commitments), res: result of the context's method, dec: the scan
                  \*  decrypted an output, ret: value returned to the caller,
                  \*  sc: the call submitted Complete]
    held,         \* per caller handle: the checkpoint map taken by get_vk_heights
    \* history of the task manager, read only by the properties
    submitted,    \* requests in the order they entered the channel
    processed,    \* requests in the order run() dequeued them
    failed,       \* a mutation has returned an error inside a caller
    ncalls,       \* number of TaskManagerChannel calls so far
    \* ---- extraction of the shielded payload ----
    xtx,          \* the Tx handed to extract_masp_tx: [wrapper, data]
    xarg,         \* the ExtractShieldedActionArg: an event, or an RPC request
    xcheck,       \* the check_header argument
    xpc,          \* "call" before extract_masp_tx ran, "done" after
    xres,         \* what the call returned (NoResult before it)
    xagain,       \* what a second call with the same arguments returned
    \* ---- composition of events and dispatch on their attributes ----
    evBase,       \* the Event a chain of with(..) starts from: [domain, attrs]
    evChain,      \* the extensions given to with(..), in the order of the calls
    evpc,         \* "compose" before the CompositeEvent is converted, "done" after
    evOut,        \* the Event the conversion returned (the base before it)
    dAttributes,  \* dispatch_attribute: the attributes map
    dispatchList, \* dispatch_attribute: the (kind, checker) pairs
    dispatchBreaks, \* the kinds for which the callback returns Break
    dpos,         \* position of the for loop in the dispatch list
    dispatched,   \* the kinds the callback was invoked with, in order
    dpc,          \* "loop" inside dispatch_attribute, "returned" after
    \* ---- ledger: governance, shielded pool validity predicate, events ----
    gov,          \* execute_governance_proposals: the loop, the storage it
                  \* writes and the ProposalsResult it builds
    vp,           \* a call of the shielded pool validate_tx: arguments and result
    ety,          \* an Event, the abci Event made of it and the EventType
                  \* parsed from its type string
    ibc           \* two IbcEvents and the Ordering cmp gave for them

fqvars == <<cache, lastFetched, spc, sdata, rpc, yielded, lastRet, sent,
            nsends, lateSend, firstNext, containsRet, lastQueryHeight, sizeRet>>

tmvars == <<ctx, lock, chan, apc, latestHeight, mgrDropped, durable, cpc, cop,
            held, submitted, processed, failed, ncalls>>

exvars == <<xtx, xarg, xcheck, xpc, xres, xagain>>

evvars == <<evBase, evChain, evpc, evOut, dAttributes, dispatchList,
            dispatchBreaks, dpos, dispatched, dpc>>

ldvars == <<gov, vp, ety, ibc>>

vars == <<fqvars, tmvars, exvars, evvars, ldvars>>

(***************************************************************************)
(* IndexedTx order and the Unscanned cache.                                *)
(***************************************************************************)
\* IndexedTx derives Ord: by height, then by index.
IndexedTxLt(a, b) == a[1] < b[1] \/ (a[1] = b[1] /\ a[2] < b[2])
IndexedTxLe(a, b) == a = b \/ IndexedTxLt(a, b)

\* Unscanned::pop_first: the entry with the least IndexedTx (the cache is
\* an ordered map); only used on a non-empty cache.
FirstEntry(c) == CHOOSE e \in c : \A f \in c : IndexedTxLe(e, f)
LastEntry(c) == CHOOSE e \in c : \A f \in c : IndexedTxLe(f, e)
\* Unscanned::insert: insert by key (an equal key is replaced).
CacheInsert(c, e) == c \cup {e}
\* Unscanned::contains_height
CacheContainsHeight(c, h) == \E e \in c : e[1] = h
\* Unscanned::first_height: the lowest height in the cache, the default
\* height of an empty one.
FirstHeight(c) == IF c = {} THEN 0 ELSE FirstEntry(c)[1]

\* flume::Receiver::sender_count: the sender handles not yet dropped.
SenderCount == Cardinality({s \in Senders : spc[s] \in {"idle", "insert"}})
\* FetchQueueReceiver::sender_alive
SenderAliveAlways == TRUE
SenderAlive == SenderCount > 0
\* The receiver handles not yet dropped (flume's receiver count).
ReceiverCount == Cardinality({r \in ReceiverHandles : rpc[r] \in {"idle", "poll", "polltry"}})

\* The caches a session may start with (fetch_channel::new is handed the
\* session's cache).
InitCaches == {{}, {<<2, 0>>}}

InitFQ ==
    /\ cache \in InitCaches
    /\ lastFetched = <<>>
    /\ spc = [s \in Senders |-> IF s = 1 THEN "idle" ELSE "unused"]
    /\ sdata = [s \in Senders |-> NoEntry]
    /\ rpc = [r \in ReceiverHandles |-> IF r \in Receivers THEN "idle" ELSE "unused"]
    /\ yielded = [r \in ReceiverHandles |-> <<>>]
    /\ lastRet = [r \in ReceiverHandles |-> "none"]
    /\ sent = cache
    /\ nsends = 0
    /\ lateSend = FALSE
    /\ firstNext = "notyet"
    /\ containsRet = NoQuery
    /\ lastQueryHeight \in LastQueryHeights
    /\ sizeRet = NoHint

(***************************************************************************)
(* FetchQueueSender                                                        *)
(***************************************************************************)
\* #[derive(Clone)]: a live handle s makes the unused handle t live.
SenderClone(s, t) ==
    /\ sizeRet' = NoHint
    /\ containsRet' = NoQuery
    /\ spc[s] = "idle"
    /\ spc[t] = "unused"
    /\ spc' = [spc EXCEPT ![t] = "idle"]
    /\ UNCHANGED <<cache, lastFetched, sdata, rpc, yielded, lastRet, sent,
                   nsends, lateSend, firstNext>>
    /\ UNCHANGED <<ldvars, tmvars, exvars, evvars, lastQueryHeight>>

\* The handle is dropped (its task finished or panicked between sends).
SenderDrop(s) ==
    /\ sizeRet' = NoHint
    /\ containsRet' = NoQuery
    /\ spc[s] = "idle"
    /\ spc' = [spc EXCEPT ![s] = "dropped"]
    /\ UNCHANGED <<cache, lastFetched, sdata, rpc, yielded, lastRet, sent,
                   nsends, lateSend, firstNext>>
    /\ UNCHANGED <<ldvars, tmvars, exvars, evvars, lastQueryHeight>>

\* A contains_height that answers from the heights published so far.
ContainsHeightPublished(s, h) ==
    /\ sizeRet' = NoHint
    /\ spc[s] = "idle"
    /\ containsRet' = <<h, \E i \in 1..Len(lastFetched) : lastFetched[i] = h>>
    /\ UNCHANGED <<cache, lastFetched, spc, sdata, rpc, yielded, lastRet, sent,
                   nsends, lateSend, firstNext>>
    /\ UNCHANGED <<ldvars, tmvars, exvars, evvars, lastQueryHeight>>

\* contains_height(height): self.cache.contains_height(height), a read of
\* the shared cache.
ContainsHeight(s, h) ==
    /\ sizeRet' = NoHint
    /\ spc[s] = "idle"
    /\ containsRet' = <<h, CacheContainsHeight(cache, h)>>
    /\ UNCHANGED <<cache, lastFetched, spc, sdata, rpc, yielded, lastRet, sent,
                   nsends, lateSend, firstNext>>
    /\ UNCHANGED <<ldvars, tmvars, exvars, evvars, lastQueryHeight>>

\* A send over a channel with room for one height, which nobody drains.
SendPublishBounded(s, e) ==
    /\ sizeRet' = NoHint
    /\ containsRet' = NoQuery
    /\ spc[s] = "idle"
    /\ nsends < MaxSends
    /\ ReceiverCount = 0 \/ Len(lastFetched) < 1
    /\ nsends' = nsends + 1
    /\ sent' = sent \cup {e}
    /\ IF ReceiverCount = 0
       THEN /\ spc' = [spc EXCEPT ![s] = "panicked"]
            /\ UNCHANGED <<lastFetched, sdata>>
       ELSE /\ lastFetched' = Append(lastFetched, e[1])
            /\ sdata' = [sdata EXCEPT ![s] = e]
            /\ spc' = [spc EXCEPT ![s] = "insert"]
    /\ UNCHANGED <<cache, rpc, yielded, lastRet, lateSend, firstNext>>
    /\ UNCHANGED <<ldvars, tmvars, exvars, evvars, lastQueryHeight>>

\* send, first statement: self.last_fetched.send(data.0.height).unwrap().
\* flume's send fails when every receiver is gone and the unwrap panics,
\* which unwinds the sending task and drops its handle.
SendPublish(s, e) ==
    /\ sizeRet' = NoHint
    /\ containsRet' = NoQuery
    /\ spc[s] = "idle"
    /\ nsends < MaxSends
    /\ nsends' = nsends + 1
    /\ sent' = sent \cup {e}
    /\ IF ReceiverCount = 0
       THEN /\ spc' = [spc EXCEPT ![s] = "panicked"]
            /\ UNCHANGED <<lastFetched, sdata>>
       ELSE /\ lastFetched' = Append(lastFetched, e[1])
            /\ sdata' = [sdata EXCEPT ![s] = e]
            /\ spc' = [spc EXCEPT ![s] = "insert"]
    /\ UNCHANGED <<cache, rpc, yielded, lastRet, lateSend, firstNext>>
    /\ UNCHANGED <<ldvars, tmvars, exvars, evvars, lastQueryHeight>>

\* send without its second statement.
SendWithoutInsert(s) ==
    /\ sizeRet' = NoHint
    /\ containsRet' = NoQuery
    /\ spc[s] = "insert"
    /\ spc' = [spc EXCEPT ![s] = "idle"]
    /\ sdata' = [sdata EXCEPT ![s] = NoEntry]
    /\ UNCHANGED <<cache, lastFetched, rpc, yielded, lastRet, sent, nsends,
                   lateSend, firstNext>>
    /\ UNCHANGED <<ldvars, tmvars, exvars, evvars, lastQueryHeight>>

\* send, second statement: self.cache.insert(data).
SendInsert(s) ==
    /\ sizeRet' = NoHint
    /\ containsRet' = NoQuery
    /\ spc[s] = "insert"
    /\ cache' = CacheInsert(cache, sdata[s])
    /\ spc' = [spc EXCEPT ![s] = "idle"]
    /\ sdata' = [sdata EXCEPT ![s] = NoEntry]
    /\ lateSend' = (lateSend \/ \E r \in ReceiverHandles : \E i \in 1..Len(yielded[r]) :
                                    IndexedTxLt(sdata[s], yielded[r][i]))
    /\ UNCHANGED <<lastFetched, rpc, yielded, lastRet, sent, nsends, firstNext>>
    /\ UNCHANGED <<ldvars, tmvars, exvars, evvars, lastQueryHeight>>

(***************************************************************************)
(* FetchQueueReceiver: Iterator::next                                      *)
(***************************************************************************)
\* The entry a pop takes from a non-empty cache.
PopsLast(c) == LastEntry(c)
Pops(c) == FirstEntry(c)

\* next() is called and runs its first self.cache.pop_first(): an entry is
\* returned at once, an empty cache sends the call into the polling loop.
NextFirstPop(r) ==
    /\ sizeRet' = NoHint
    /\ containsRet' = NoQuery
    /\ rpc[r] = "idle"
    /\ firstNext' = IF firstNext = "notyet"
                    THEN (IF SenderCount = 0 THEN "closed" ELSE "open")
                    ELSE firstNext
    /\ IF cache # {}
       THEN /\ cache' = cache \ {Pops(cache)}
            /\ yielded' = [yielded EXCEPT ![r] = Append(@, Pops(cache))]
            /\ lastRet' = [lastRet EXCEPT ![r] = "Some"]
            /\ UNCHANGED rpc
       ELSE /\ rpc' = [rpc EXCEPT ![r] = "poll"]
            /\ lastRet' = [lastRet EXCEPT ![r] = "none"]
            /\ UNCHANGED <<cache, yielded>>
    /\ UNCHANGED <<lastFetched, spc, sdata, sent, nsends, lateSend>>
    /\ UNCHANGED <<ldvars, tmvars, exvars, evvars, lastQueryHeight>>

\* The loop condition `while self.sender_alive()`: with no live sender the
\* loop is left and next() returns None.
NextSenderAlive(r) ==
    /\ sizeRet' = NoHint
    /\ containsRet' = NoQuery
    /\ rpc[r] = "poll"
    /\ IF SenderAlive
       THEN /\ rpc' = [rpc EXCEPT ![r] = "polltry"]
            /\ UNCHANGED lastRet
       ELSE /\ rpc' = [rpc EXCEPT ![r] = "idle"]
            /\ lastRet' = [lastRet EXCEPT ![r] = "None"]
    /\ UNCHANGED <<cache, lastFetched, spc, sdata, yielded, sent, nsends,
                   lateSend, firstNext>>
    /\ UNCHANGED <<ldvars, tmvars, exvars, evvars, lastQueryHeight>>

\* As NextPollPop, but the entry returned stays in the cache.
NextPollPopKeeping(r) ==
    /\ sizeRet' = NoHint
    /\ containsRet' = NoQuery
    /\ rpc[r] = "polltry"
    /\ IF cache # {}
       THEN /\ yielded' = [yielded EXCEPT ![r] = Append(@, Pops(cache))]
            /\ lastRet' = [lastRet EXCEPT ![r] = "Some"]
            /\ rpc' = [rpc EXCEPT ![r] = "idle"]
            /\ UNCHANGED cache
       ELSE /\ rpc' = [rpc EXCEPT ![r] = "poll"]
            /\ UNCHANGED <<cache, yielded, lastRet>>
    /\ UNCHANGED <<lastFetched, spc, sdata, sent, nsends, lateSend, firstNext>>
    /\ UNCHANGED <<ldvars, tmvars, exvars, evvars, lastQueryHeight>>

\* The loop body: `if let Some(entry) = self.cache.pop_first() { return Some(entry) }`.
NextPollPop(r) ==
    /\ sizeRet' = NoHint
    /\ containsRet' = NoQuery
    /\ rpc[r] = "polltry"
    /\ IF cache # {}
       THEN /\ cache' = cache \ {Pops(cache)}
            /\ yielded' = [yielded EXCEPT ![r] = Append(@, Pops(cache))]
            /\ lastRet' = [lastRet EXCEPT ![r] = "Some"]
            /\ rpc' = [rpc EXCEPT ![r] = "idle"]
       ELSE /\ rpc' = [rpc EXCEPT ![r] = "poll"]
            /\ UNCHANGED <<cache, yielded, lastRet>>
    /\ UNCHANGED <<lastFetched, spc, sdata, sent, nsends, lateSend, firstNext>>
    /\ UNCHANGED <<ldvars, tmvars, exvars, evvars, lastQueryHeight>>

\* #[derive(Clone)] on FetchQueueReceiver: the clone shares the cache and
\* the liveness channel and copies last_query_height.
ReceiverClone(r, q) ==
    /\ sizeRet' = NoHint
    /\ containsRet' = NoQuery
    /\ rpc[r] = "idle"
    /\ rpc[q] = "unused"
    /\ rpc' = [rpc EXCEPT ![q] = "idle"]
    /\ UNCHANGED <<cache, lastFetched, spc, sdata, yielded, lastRet, sent,
                   nsends, lateSend, firstNext>>
    /\ UNCHANGED <<ldvars, tmvars, exvars, evvars, lastQueryHeight>>

\* The receiver handle is dropped (the scan stage stopped iterating).
ReceiverDrop(r) ==
    /\ sizeRet' = NoHint
    /\ containsRet' = NoQuery
    /\ rpc[r] = "idle"
    /\ rpc' = [rpc EXCEPT ![r] = "dropped"]
    /\ UNCHANGED <<cache, lastFetched, spc, sdata, yielded, lastRet, sent,
                   nsends, lateSend, firstNext>>
    /\ UNCHANGED <<ldvars, tmvars, exvars, evvars, lastQueryHeight>>

\* `(self.last_query_height - self.cache.first_height().into()).0 as usize`
\* returned as both bounds; BlockHeight wraps a u64.
SizeHintValue(last, first) ==
    IF first <= last
    THEN {[tag |-> "Some", lo |-> last - first, hi |-> last - first]}
    ELSE {[tag |-> "Panic", lo |-> 0, hi |-> 0],
          [tag |-> "Wrapped", lo |-> first - last, hi |-> first - last]}

\* size_hint(&self): a read of the cache; a panic unwinds the scan task,
\* which drops its handle.
SizeHint(r) ==
    /\ containsRet' = NoQuery
    /\ rpc[r] = "idle"
    /\ \E v \in SizeHintValue(lastQueryHeight, FirstHeight(cache)) :
          /\ sizeRet' = v
          /\ rpc' = IF v.tag = "Panic" THEN [rpc EXCEPT ![r] = "dropped"] ELSE rpc
    /\ UNCHANGED <<cache, lastFetched, spc, sdata, yielded, lastRet, sent,
                   nsends, lateSend, firstNext>>
    /\ UNCHANGED <<ldvars, tmvars, exvars, evvars, lastQueryHeight>>

ReceiverStep(r) == NextFirstPop(r) \/ NextSenderAlive(r) \/ NextPollPop(r)

NextFQ ==
    \/ \E s \in Senders, t \in Senders : SenderClone(s, t)
    \/ \E s \in Senders : SenderDrop(s)
    \/ \E s \in Senders, e \in IndexedTxs : SendPublish(s, e)
    \/ \E s \in Senders : SendInsert(s)
    \/ \E r \in Receivers : NextFirstPop(r)
    \/ \E r \in Receivers : NextSenderAlive(r)
    \/ \E r \in Receivers : NextPollPop(r)
    \/ \E r \in Receivers : ReceiverDrop(r)

\* The scan stage drains through clones of the receiver the queue that
\* the handle returned by fetch_channel::new feeds.
NextFQR ==
    \/ \E s \in Senders : SenderDrop(s)
    \/ \E s \in Senders, e \in IndexedTxs : SendPublish(s, e)
    \/ \E s \in Senders : SendInsert(s)
    \/ \E r \in ReceiverHandles, q \in ReceiverHandles : ReceiverClone(r, q)
    \/ \E r \in ReceiverHandles : NextFirstPop(r)
    \/ \E r \in ReceiverHandles : NextSenderAlive(r)
    \/ \E r \in ReceiverHandles : NextPollPop(r)

\* The scan stage also asks the queue for its size estimate.
NextFQS == NextFQ \/ \E r \in Receivers : SizeHint(r)

\* The fetch stage also asks the queue which heights it holds.
NextFQC ==
    \/ NextFQ
    \/ \E s \in Senders, h \in QueriedHeights : ContainsHeight(s, h)

(***************************************************************************)
(* Persistence task manager: bounds and values.                            *)
(***************************************************************************)
\* Capacity of the request channel.  TaskManager::new creates it with
\* capacity 100; the model scales it down, a send blocks exactly when the
\* buffer holds that many requests.
ChanCap == 1
\* Total number of TaskManagerChannel calls in a behaviour.
MaxCalls == 3
\* Numbers of note commitments a payload may hold.
PayloadSizes == {2}
\* Heights passed to save() and used as checkpoints.
SaveHeights == {1, 2}

\* TaskManagerChannel handles: the original and one clone.
Callers == {1, 2}
ViewingKeys == {"vkA", "vkB"}
\* Errors a mutation of the ShieldedContext may return.
Errors == {"decode", "crypto"}
\* Owners of the mutex other than a caller.
Free == 0
Actor == -1

\* Action::Complete and Action::Data(ctx, height); Data carries the shared
\* handle of the context, not a copy of it.
Complete == <<"Complete", 0>>
Data(h) == <<"Data", h>>

\* BTreeMap::new(): the map with no key.
EmptyMap == [k \in {} |-> NoEntry]
\* Rank of a key's checkpoint in a map: absent, then None, then Some(tx).
Checkpoint(m, k) == IF k \in DOMAIN m THEN m[k][1] + 1 ELSE 0
\* The entries handed to update_witness_map and scan_tx.
ScanEntries == {<<h, 0>> : h \in SaveHeights}
\* The map m (Option<IndexedTx> per key, NoEntry standing for None) after
\* its holder scanned the entry t for the key k: the key's checkpoint is t.
AdvanceTo(m, k, t) == [m EXCEPT ![k] = t]
NoMap == [has |-> FALSE, m |-> EmptyMap]
NoCall == [op |-> "none", h |-> 0, t |-> NoEntry, k |-> "none", n |-> 0,
           res |-> "none", dec |-> FALSE, ret |-> "none", sc |-> FALSE]

\* The contexts a session may start with: every key without a checkpoint,
\* or a context loaded with checkpoints at height 1.
DefaultCtx == [vk |-> [k \in ViewingKeys |-> NoEntry], wit |-> <<>>]
InitCtxs == {DefaultCtx, [vk |-> [k \in ViewingKeys |-> <<1, 0>>], wit |-> <<>>]}
\* ShieldedContext::update_witness_map having added the witnesses of the
\* first j commitments of the entry t, at the next free positions.
CtxUpdateWitnessMap(x, t, j) == [x EXCEPT !.wit = @ \o [i \in 1..j |-> t]]
\* ShieldedContext::save: the whole context replaces the durable state, or
\* the write fails and the durable state stays.
CtxSave(x, old, ok) == IF ok THEN x ELSE old

\* TaskManager::new
InitTM ==
    /\ ctx \in InitCtxs
    /\ lock = Free
    /\ chan = <<>>
    /\ apc = "recv"
    /\ latestHeight = 0
    /\ mgrDropped = FALSE
    /\ durable = ctx
    /\ cpc = [c \in Callers |-> IF c = 1 THEN "idle" ELSE "unused"]
    /\ cop = [c \in Callers |-> NoCall]
    /\ held = [c \in Callers |-> NoMap]
    /\ submitted = <<>>
    /\ processed = <<>>
    /\ failed = FALSE
    /\ ncalls = 0

\* tokio's count of Sender handles: the TaskManagerChannel handles alive.
LiveCallers == {c \in Callers : cpc[c] \in {"idle", "acquire", "apply", "send"}}
\* The mutex after caller c leaves a call (its guard, if any, is dropped).
Released(c) == IF lock = c THEN Free ELSE lock
Mutations == {"update_witness_map", "scan_tx"}
\* The scan loop passes the first error on to its caller (`?`) and the
\* session ends: a handle whose call returned an error starts no other call.
Proceeds(c) == cop[c].ret \notin Errors

(***************************************************************************)
(* TaskManagerChannel                                                      *)
(***************************************************************************)
\* #[derive(Clone)]
CallerClone(c, d) ==
    /\ cpc[c] = "idle"
    /\ cpc[d] = "unused"
    /\ cpc' = [cpc EXCEPT ![d] = "idle"]
    /\ UNCHANGED <<ctx, lock, chan, apc, latestHeight, mgrDropped, durable, cop,
                   held, submitted, processed, failed, ncalls>>
    /\ UNCHANGED <<ldvars, fqvars, exvars, evvars>>

\* The handle is dropped.
CallerDrop(c) ==
    /\ cpc[c] = "idle"
    /\ cpc' = [cpc EXCEPT ![c] = "dropped"]
    /\ UNCHANGED <<ctx, lock, chan, apc, latestHeight, mgrDropped, durable, cop,
                   held, submitted, processed, failed, ncalls>>
    /\ UNCHANGED <<ldvars, fqvars, exvars, evvars>>

\* update_witness_map(indexed_tx, stx) is called for the entry t, stx
\* holding n commitments.
CallUpdateWitnessMap(c, t, n) ==
    /\ cpc[c] = "idle"
    /\ Proceeds(c)
    /\ ncalls < MaxCalls
    /\ ncalls' = ncalls + 1
    /\ cop' = [cop EXCEPT ![c] = [NoCall EXCEPT !.op = "update_witness_map", !.t = t, !.n = n]]
    /\ cpc' = [cpc EXCEPT ![c] = "acquire"]
    /\ UNCHANGED <<ctx, lock, chan, apc, latestHeight, mgrDropped, durable,
                   held, submitted, processed, failed>>
    /\ UNCHANGED <<ldvars, fqvars, exvars, evvars>>

\* scan_tx(indexed_tx, epoch, tx, stx, vk, native_token) is called for the
\* entry t and the viewing key k: the scan loop took the checkpoint map
\* out of the context and scans an entry for the keys that are behind it.
CallScanTx(c, t, k) ==
    /\ cpc[c] = "idle"
    /\ Proceeds(c)
    /\ ncalls < MaxCalls
    /\ held[c].has
    /\ k \in DOMAIN held[c].m
    /\ IndexedTxLt(held[c].m[k], t)
    /\ ncalls' = ncalls + 1
    /\ cop' = [cop EXCEPT ![c] = [NoCall EXCEPT !.op = "scan_tx", !.t = t, !.k = k]]
    /\ cpc' = [cpc EXCEPT ![c] = "acquire"]
    /\ UNCHANGED <<ctx, lock, chan, apc, latestHeight, mgrDropped, durable,
                   held, submitted, processed, failed>>
    /\ UNCHANGED <<ldvars, fqvars, exvars, evvars>>

\* get_vk_heights() is called, by a caller that does not hold the map.
CallGetVkHeights(c) ==
    /\ cpc[c] = "idle"
    /\ Proceeds(c)
    /\ ncalls < MaxCalls
    /\ ~held[c].has
    /\ ncalls' = ncalls + 1
    /\ cop' = [cop EXCEPT ![c] = [NoCall EXCEPT !.op = "get_vk_heights"]]
    /\ cpc' = [cpc EXCEPT ![c] = "acquire"]
    /\ UNCHANGED <<ctx, lock, chan, apc, latestHeight, mgrDropped, durable,
                   held, submitted, processed, failed>>
    /\ UNCHANGED <<ldvars, fqvars, exvars, evvars>>

\* set_vk_heights(m) is called by a caller that took the map out with
\* get_vk_heights and hands it back, with the checkpoints of its scans.
CallSetVkHeights(c) ==
    /\ cpc[c] = "idle"
    /\ Proceeds(c)
    /\ ncalls < MaxCalls
    /\ held[c].has
    /\ ncalls' = ncalls + 1
    /\ cop' = [cop EXCEPT ![c] = [NoCall EXCEPT !.op = "set_vk_heights"]]
    /\ cpc' = [cpc EXCEPT ![c] = "acquire"]
    /\ UNCHANGED <<ctx, lock, chan, apc, latestHeight, mgrDropped, durable,
                   held, submitted, processed, failed>>
    /\ UNCHANGED <<ldvars, fqvars, exvars, evvars>>

\* save(latest_height) is called: it goes straight to blocking_send.
CallSave(c, h) ==
    /\ cpc[c] = "idle"
    /\ Proceeds(c)
    /\ ncalls < MaxCalls
    /\ ncalls' = ncalls + 1
    /\ cop' = [cop EXCEPT ![c] = [NoCall EXCEPT !.op = "save", !.h = h]]
    /\ cpc' = [cpc EXCEPT ![c] = "send"]
    /\ UNCHANGED <<ctx, lock, chan, apc, latestHeight, mgrDropped, durable,
                   held, submitted, processed, failed>>
    /\ UNCHANGED <<ldvars, fqvars, exvars, evvars>>

\* complete() is called: it goes straight to blocking_send.
CallComplete(c) ==
    /\ cpc[c] = "idle"
    /\ Proceeds(c)
    /\ ncalls < MaxCalls
    /\ ncalls' = ncalls + 1
    /\ cop' = [cop EXCEPT ![c] = [NoCall EXCEPT !.op = "complete"]]
    /\ cpc' = [cpc EXCEPT ![c] = "send"]
    /\ UNCHANGED <<ctx, lock, chan, apc, latestHeight, mgrDropped, durable,
                   held, submitted, processed, failed>>
    /\ UNCHANGED <<ldvars, fqvars, exvars, evvars>>

\* An acquire() that takes the context whether or not it is held.
AcquireUnguarded(c) ==
    /\ cpc[c] = "acquire"
    /\ lock' = c
    /\ cpc' = [cpc EXCEPT ![c] = "apply"]
    /\ UNCHANGED <<ctx, chan, apc, latestHeight, mgrDropped, durable, cop,
                   held, submitted, processed, failed, ncalls>>
    /\ UNCHANGED <<ldvars, fqvars, exvars, evvars>>

\* acquire(): the try_lock of the spin loop that succeeds.  A failed
\* try_lock changes nothing and is retried.
Acquire(c) ==
    /\ cpc[c] = "acquire"
    /\ lock = Free
    /\ lock' = c
    /\ cpc' = [cpc EXCEPT ![c] = "apply"]
    /\ UNCHANGED <<ctx, chan, apc, latestHeight, mgrDropped, durable, cop,
                   held, submitted, processed, failed, ncalls>>
    /\ UNCHANGED <<ldvars, fqvars, exvars, evvars>>

\* What a mutation that returned res does next.
AfterMutationNoComplete(c, res, dec) ==
    /\ cop' = [cop EXCEPT ![c].res = res, ![c].dec = dec, ![c].n = 0, ![c].ret = res]
    /\ failed' = (failed \/ res # "ok")
    /\ lock' = Free
    /\ cpc' = [cpc EXCEPT ![c] = "idle"]

\* `if res.is_err() { self.complete() }; res`: a success returns and drops
\* the guard, an error goes on to complete() with the guard still held.
AfterMutation(c, res, dec) ==
    /\ failed' = (failed \/ res # "ok")
    /\ IF res = "ok"
       THEN /\ cop' = [cop EXCEPT ![c].res = res, ![c].dec = dec, ![c].n = 0,
                                  ![c].t = NoEntry, ![c].k = "none", ![c].ret = res]
            /\ lock' = Free
            /\ cpc' = [cpc EXCEPT ![c] = "idle"]
       ELSE /\ cop' = [cop EXCEPT ![c].res = res, ![c].dec = dec, ![c].n = 0]
            /\ UNCHANGED lock
            /\ cpc' = [cpc EXCEPT ![c] = "send"]

\* An update_witness_map that may skip commitments and still succeed.
ApplyUpdateWitnessMapSkipping(c, res, j) ==
    /\ cpc[c] = "apply"
    /\ cop[c].op = "update_witness_map"
    /\ j <= cop[c].n
    /\ ctx' = CtxUpdateWitnessMap(ctx, cop[c].t, j)
    /\ AfterMutation(c, res, FALSE)
    /\ UNCHANGED <<chan, apc, latestHeight, mgrDropped, durable, held,
                   submitted, processed, ncalls>>
    /\ UNCHANGED <<ldvars, fqvars, exvars, evvars>>

\* locked.update_witness_map(indexed_tx, stx): a success adds one witness
\* per commitment of the payload; an error may leave the witnesses of the
\* commitments handled before it.
ApplyUpdateWitnessMap(c, res, j) ==
    /\ cpc[c] = "apply"
    /\ cop[c].op = "update_witness_map"
    /\ IF res = "ok" THEN j = cop[c].n ELSE j < cop[c].n
    /\ ctx' = CtxUpdateWitnessMap(ctx, cop[c].t, j)
    /\ AfterMutation(c, res, FALSE)
    /\ UNCHANGED <<chan, apc, latestHeight, mgrDropped, durable, held,
                   submitted, processed, ncalls>>
    /\ UNCHANGED <<ldvars, fqvars, exvars, evvars>>

\* A scan_tx whose entry is recorded as the key's checkpoint whatever the
\* result.
ApplyScanTxAlwaysRecords(c, res, dec) ==
    /\ cpc[c] = "apply"
    /\ cop[c].op = "scan_tx"
    /\ res # "ok" => ~dec
    /\ held' = [held EXCEPT ![c].m = AdvanceTo(@, cop[c].k, cop[c].t)]
    /\ AfterMutation(c, res, dec)
    /\ UNCHANGED <<ctx, chan, apc, latestHeight, mgrDropped, durable,
                   submitted, processed, ncalls>>
    /\ UNCHANGED <<ldvars, fqvars, exvars, evvars>>

\* locked.scan_tx(..): it may decrypt outputs of the payload for the key
\* (dec) or none; its effects are on the note maps of the context, which
\* are outside the modelled state.  After an Ok the scan loop records the
\* entry as the key's checkpoint in the map it holds, whatever was
\* decrypted; an error is passed on and the map is left as it is.
ApplyScanTx(c, res, dec) ==
    /\ cpc[c] = "apply"
    /\ cop[c].op = "scan_tx"
    /\ res # "ok" => ~dec
    /\ held' = IF res = "ok"
               THEN [held EXCEPT ![c].m = AdvanceTo(@, cop[c].k, cop[c].t)]
               ELSE held
    /\ AfterMutation(c, res, dec)
    /\ UNCHANGED <<ctx, chan, apc, latestHeight, mgrDropped, durable,
                   submitted, processed, ncalls>>
    /\ UNCHANGED <<ldvars, fqvars, exvars, evvars>>

\* A get_vk_heights that returns a copy and leaves the context's map.
ApplyGetVkHeightsCopy(c) ==
    /\ cpc[c] = "apply"
    /\ cop[c].op = "get_vk_heights"
    /\ held' = [held EXCEPT ![c] = [has |-> TRUE, m |-> ctx.vk]]
    /\ cop' = [cop EXCEPT ![c].res = "ok", ![c].ret = "ok"]
    /\ lock' = Free
    /\ cpc' = [cpc EXCEPT ![c] = "idle"]
    /\ UNCHANGED <<ctx, chan, apc, latestHeight, mgrDropped, durable, submitted,
                   processed, failed, ncalls>>
    /\ UNCHANGED <<ldvars, fqvars, exvars, evvars>>

\* get_vk_heights: swap an empty map into the context, return its map.
ApplyGetVkHeights(c) ==
    /\ cpc[c] = "apply"
    /\ cop[c].op = "get_vk_heights"
    /\ held' = [held EXCEPT ![c] = [has |-> TRUE, m |-> ctx.vk]]
    /\ ctx' = [ctx EXCEPT !.vk = EmptyMap]
    /\ cop' = [cop EXCEPT ![c].res = "ok", ![c].ret = "ok"]
    /\ lock' = Free
    /\ cpc' = [cpc EXCEPT ![c] = "idle"]
    /\ UNCHANGED <<chan, apc, latestHeight, mgrDropped, durable, submitted,
                   processed, failed, ncalls>>
    /\ UNCHANGED <<ldvars, fqvars, exvars, evvars>>

\* A set_vk_heights that keeps the checkpoints the context already has.
ApplySetVkHeightsKeep(c) ==
    /\ cpc[c] = "apply"
    /\ cop[c].op = "set_vk_heights"
    /\ ctx' = [ctx EXCEPT !.vk = [k \in DOMAIN held[c].m |->
                                    IF k \in DOMAIN ctx.vk THEN ctx.vk[k] ELSE NoEntry]]
    /\ held' = [held EXCEPT ![c] = NoMap]
    /\ cop' = [cop EXCEPT ![c].res = "ok", ![c].ret = "ok"]
    /\ lock' = Free
    /\ cpc' = [cpc EXCEPT ![c] = "idle"]
    /\ UNCHANGED <<chan, apc, latestHeight, mgrDropped, durable, submitted,
                   processed, failed, ncalls>>
    /\ UNCHANGED <<ldvars, fqvars, exvars, evvars>>

\* set_vk_heights: swap the given map into the context, drop the old one.
ApplySetVkHeights(c) ==
    /\ cpc[c] = "apply"
    /\ cop[c].op = "set_vk_heights"
    /\ ctx' = [ctx EXCEPT !.vk = held[c].m]
    /\ held' = [held EXCEPT ![c] = NoMap]
    /\ cop' = [cop EXCEPT ![c].res = "ok", ![c].ret = "ok"]
    /\ lock' = Free
    /\ cpc' = [cpc EXCEPT ![c] = "idle"]
    /\ UNCHANGED <<chan, apc, latestHeight, mgrDropped, durable, submitted,
                   processed, failed, ncalls>>
    /\ UNCHANGED <<ldvars, fqvars, exvars, evvars>>

\* The request a call in its blocking_send submits.
Request(c) == IF cop[c].op = "save" THEN Data(cop[c].h) ELSE Complete

\* self.action.blocking_send(request).unwrap() with room in the buffer: the
\* request is queued and the call returns (a failed mutation returns its
\* error and drops the guard).  With a full buffer the send waits.
Send(c) ==
    /\ cpc[c] = "send"
    /\ ~mgrDropped
    /\ Len(chan) < ChanCap
    /\ chan' = Append(chan, Request(c))
    /\ submitted' = Append(submitted, Request(c))
    /\ cop' = [cop EXCEPT ![c].ret = IF cop[c].op \in Mutations THEN cop[c].res ELSE "ok",
                           ![c].sc = (Request(c) = Complete),
                           ![c].h = 0]
    /\ lock' = Released(c)
    /\ cpc' = [cpc EXCEPT ![c] = "idle"]
    /\ UNCHANGED <<ctx, apc, latestHeight, mgrDropped, durable, held,
                   processed, failed, ncalls>>
    /\ UNCHANGED <<ldvars, fqvars, exvars, evvars>>

\* blocking_send on a closed channel returns an error and the unwrap
\* panics; unwinding drops the guard and the handle.
SendPanics(c) ==
    /\ cpc[c] = "send"
    /\ mgrDropped
    /\ lock' = Released(c)
    /\ cpc' = [cpc EXCEPT ![c] = "panicked"]
    /\ UNCHANGED <<ctx, chan, apc, latestHeight, mgrDropped, durable, cop,
                   held, submitted, processed, failed, ncalls>>
    /\ UNCHANGED <<ldvars, fqvars, exvars, evvars>>

(***************************************************************************)
(* TaskManager::run                                                        *)
(***************************************************************************)
\* What run() does with a dequeued request, never returning.
DispatchNoReturn(req) ==
    /\ apc' = IF req = Complete THEN "recv" ELSE "lock"
    /\ latestHeight' = IF req = Complete THEN latestHeight ELSE req[2]

\* `match action`: Complete returns, Data records the height and goes on to
\* lock the context.
Dispatch(req) ==
    IF req = Complete
    THEN /\ apc' = "returned"
         /\ UNCHANGED latestHeight
    ELSE /\ apc' = "lock"
         /\ latestHeight' = req[2]

\* self.action.recv().await with a request in the buffer.
ActorRecv ==
    /\ apc = "recv"
    /\ chan # <<>>
    /\ chan' = Tail(chan)
    /\ processed' = Append(processed, Head(chan))
    /\ Dispatch(Head(chan))
    /\ UNCHANGED <<ctx, lock, mgrDropped, durable, cpc, cop, held, submitted,
                   failed, ncalls>>
    /\ UNCHANGED <<ldvars, fqvars, exvars, evvars>>

\* recv() returns None: the buffer is empty and every sender handle is
\* gone; the loop ends.
ActorRecvClosed ==
    /\ apc = "recv"
    /\ chan = <<>>
    /\ LiveCallers = {}
    /\ apc' = "returned"
    /\ UNCHANGED <<ctx, lock, chan, latestHeight, mgrDropped, durable, cpc, cop,
                   held, submitted, processed, failed, ncalls>>
    /\ UNCHANGED <<ldvars, fqvars, exvars, evvars>>

\* data.lock().await
ActorLock ==
    /\ apc = "lock"
    /\ lock = Free
    /\ lock' = Actor
    /\ apc' = "save"
    /\ UNCHANGED <<ctx, chan, latestHeight, mgrDropped, durable, cpc, cop, held,
                   submitted, processed, failed, ncalls>>
    /\ UNCHANGED <<ldvars, fqvars, exvars, evvars>>

\* As ActorSave, but a failed write ends run().
ActorSaveStopping(ok) ==
    /\ apc = "save"
    /\ durable' = CtxSave(ctx, durable, ok)
    /\ lock' = Free
    /\ apc' = IF ok THEN "recv" ELSE "returned"
    /\ UNCHANGED <<ctx, chan, latestHeight, mgrDropped, cpc, cop, held,
                   submitted, processed, failed, ncalls>>
    /\ UNCHANGED <<ldvars, fqvars, exvars, evvars>>

\* _ = locked.save().await: the context as it is now replaces the durable
\* state, or the write fails and the durable state stays; the result is
\* ignored and the guard dropped.
ActorSave(ok) ==
    /\ apc = "save"
    /\ durable' = CtxSave(ctx, durable, ok)
    /\ lock' = Free
    /\ apc' = "recv"
    /\ UNCHANGED <<ctx, chan, latestHeight, mgrDropped, cpc, cop, held,
                   submitted, processed, failed, ncalls>>
    /\ UNCHANGED <<ldvars, fqvars, exvars, evvars>>

\* The owner drops the TaskManager after run() returned: the channel is
\* closed and what is left in its buffer is discarded.
ManagerDrop ==
    /\ apc = "returned"
    /\ ~mgrDropped
    /\ mgrDropped' = TRUE
    /\ chan' = <<>>
    /\ UNCHANGED <<ctx, lock, apc, latestHeight, durable, cpc, cop, held,
                   submitted, processed, failed, ncalls>>
    /\ UNCHANGED <<ldvars, fqvars, exvars, evvars>>

NextTM ==
    \/ \E c \in Callers, d \in Callers : CallerClone(c, d)
    \/ \E c \in Callers : CallerDrop(c)
    \/ \E c \in Callers, t \in ScanEntries, n \in PayloadSizes : CallUpdateWitnessMap(c, t, n)
    \/ \E c \in Callers, t \in ScanEntries, k \in ViewingKeys : CallScanTx(c, t, k)
    \/ \E c \in Callers : CallGetVkHeights(c)
    \/ \E c \in Callers : CallSetVkHeights(c)
    \/ \E c \in Callers, h \in SaveHeights : CallSave(c, h)
    \/ \E c \in Callers : CallComplete(c)
    \/ \E c \in Callers : Acquire(c)
    \/ \E c \in Callers, res \in {"ok"} \cup Errors, j \in {0} \cup PayloadSizes :
            ApplyUpdateWitnessMap(c, res, j)
    \/ \E c \in Callers, res \in {"ok"} \cup Errors, dec \in BOOLEAN : ApplyScanTx(c, res, dec)
    \/ \E c \in Callers : ApplyGetVkHeights(c)
    \/ \E c \in Callers : ApplySetVkHeights(c)
    \/ \E c \in Callers : Send(c)
    \/ \E c \in Callers : SendPanics(c)
    \/ ActorRecv
    \/ ActorRecvClosed
    \/ ActorLock
    \/ \E ok \in BOOLEAN : ActorSave(ok)
    \/ ManagerDrop

(***************************************************************************)
(* Extraction of the shielded payload of a transaction: values.            *)
(***************************************************************************)
\* The masp Transactions a section or a message may hold.
Payloads == {"p1", "p2"}
\* What a section hash of the Tx leads to: no hash at all ("none"), a hash
\* of no section of the Tx ("absent"), a section that is not a masp
\* Transaction ("other"), or a masp Transaction.
SectionRefs == {"none", "absent", "other"} \cup Payloads
\* tx.header().wrapper(): not a wrapper header, or the wrapper's
\* unshield_section_hash.
Headers == {"notwrapper"} \cup SectionRefs
\* tx.data(): no data section, a borsh Transfer with its `shielded` hash,
\* an IbcMessage::ShieldedTransfer with its inline masp_tx, an
\* IbcMessage::Envelope, another IbcMessage, or bytes that decode as none.
TxDatas ==
    {[kind |-> k, ref |-> "none"] : k \in {"nodata", "envelope", "other_ibc", "garbage"}}
        \cup {[kind |-> "transfer", ref |-> r] : r \in SectionRefs}
        \cup {[kind |-> "shielded_transfer", ref |-> p] : p \in Payloads}
Txs == [wrapper : Headers, data : TxDatas]

\* The ibc events of a TxResult: not a packet event for a shielded
\* receiver, one whose attribute does not parse, or one carrying a
\* shielded transfer.
IbcEventLists == {<<>>, <<"other">>, <<"undecodable", "p1">>, <<"p2", "p1">>}
\* The value of an event's `inner_tx` attribute: no such attribute, a
\* string that does not parse as a TxResult, or a TxResult.
NoInnerTx == [st |-> "none", keys |-> {}, ibc |-> <<>>]
BadInnerTx == [st |-> "bad", keys |-> {}, ibc |-> <<>>]
InnerTxs ==
    {NoInnerTx, BadInnerTx}
        \cup {[st |-> "ok", keys |-> ks, ibc |-> l] : ks \in {{}, {"k1"}}, l \in IbcEventLists}
\* The value of an event's `is_valid_masp_tx` attribute: no such attribute,
\* a string that is no u32, or a TxIndex.
MaspAttrs == {<<"none", 0>>, <<"bad", 0>>, <<"ok", 0>>, <<"ok", 1>>}
Events == [masp : MaspAttrs, inner : InnerTxs]
\* Events that carry a shielded transfer, at the masp indexes 0 and 1.
MaspEvent(i, p) ==
    [masp |-> <<"ok", i>>, inner |-> [st |-> "ok", keys |-> {"k1"}, ibc |-> <<p>>]]
\* client.block_results(height): an RPC error, a block without
\* end_block_events, or its end_block_events.
EventLists ==
    {<<>>} \cup {<<e>> : e \in Events}
        \cup {<<MaspEvent(i, "p1"), MaspEvent(j, "p2")>> : i \in {0, 1}, j \in {0, 1}}
        \cup {<<[masp |-> <<"none", 0>>, inner |-> NoInnerTx], MaspEvent(1, "p1")>>,
              <<MaspEvent(1, "p1"), [masp |-> <<"bad", 0>>, inner |-> NoInnerTx]>>}
Blocks ==
    {[st |-> "rpcerr", evs |-> <<>>], [st |-> "noevents", evs |-> <<>>]}
        \cup {[st |-> "events", evs |-> l] : l \in EventLists}
\* Option<TxIndex>
Floors == {<<"none", 0>>, <<"some", 0>>, <<"some", 1>>}
NoEvent == [masp |-> <<"none", 0>>, inner |-> NoInnerTx]
NoBlock == [st |-> "noevents", evs |-> <<>>]
\* ExtractShieldedActionArg::Event(event) / Request((client, height, index))
EventArg(e) == [kind |-> "Event", ev |-> e, block |-> NoBlock, floor |-> <<"none", 0>>]
RequestArg(b, f) == [kind |-> "Request", ev |-> NoEvent, block |-> b, floor |-> f]
Args == {EventArg(e) : e \in Events} \cup {RequestArg(b, f) : b \in Blocks, f \in Floors}

\* Result<(BTreeSet<Key>, Transaction), Error>, or a panic of the call.
Ok(keys, p) == [tag |-> "Ok", keys |-> keys, masp |-> p, err |-> "none"]
Err(e) == [tag |-> "Err", keys |-> {}, masp |-> "none", err |-> e]
Panic == [tag |-> "Panic", keys |-> {}, masp |-> "none", err |-> "none"]
NoResult == [tag |-> "none", keys |-> {}, masp |-> "none", err |-> "none"]

(***************************************************************************)
(* get_indexed_masp_events_at_height                                       *)
(***************************************************************************)
\* The filter_map over the events: an event with a TxIndex at or above the
\* floor is kept, paired with the index.
RECURSIVE FilterMaspEvents(_, _)
FilterMaspEvents(evs, first) ==
    IF evs = <<>>
    THEN <<>>
    ELSE LET e == Head(evs)
             rest == FilterMaspEvents(Tail(evs), first)
         IN  IF e.masp[1] = "ok" /\ e.masp[2] >= first
             THEN <<<<e.masp[2], e>>>> \o rest
             ELSE rest

GetIndexedMaspEventsAtHeightNoFloor(block, floor) ==
    IF block.st = "rpcerr"
    THEN [tag |-> "Err", evs |-> <<>>]
    ELSE IF block.st = "noevents"
    THEN [tag |-> "None", evs |-> <<>>]
    ELSE IF \E i \in 1..Len(block.evs) : block.evs[i].masp[1] = "bad"
    THEN [tag |-> "Panic", evs |-> <<>>]
    ELSE [tag |-> "Some", evs |-> FilterMaspEvents(block.evs, 0)]

\* As GetIndexedMaspEventsAtHeight, but a block without end_block_events
\* gives an empty list.
GetIndexedMaspEventsAtHeightEmptyForAbsent(block, floor) ==
    LET first == IF floor[1] = "some" THEN floor[2] ELSE 0
    IN  IF block.st = "rpcerr"
        THEN [tag |-> "Err", evs |-> <<>>]
        ELSE IF \E i \in 1..Len(block.evs) : block.evs[i].masp[1] = "bad"
        THEN [tag |-> "Panic", evs |-> <<>>]
        ELSE [tag |-> "Some", evs |-> FilterMaspEvents(block.evs, first)]

\* Result<Option<Vec<(TxIndex, Event)>>>: tag "Err", "None" or "Some"; the
\* unwrap of u32::from_str panics on an attribute that is no u32.
GetIndexedMaspEventsAtHeight(block, floor) ==
    LET first == IF floor[1] = "some" THEN floor[2] ELSE 0
    IN  IF block.st = "rpcerr"
        THEN [tag |-> "Err", evs |-> <<>>]
        ELSE IF block.st = "noevents"
        THEN [tag |-> "None", evs |-> <<>>]
        ELSE IF \E i \in 1..Len(block.evs) : block.evs[i].masp[1] = "bad"
        THEN [tag |-> "Panic", evs |-> <<>>]
        ELSE [tag |-> "Some", evs |-> FilterMaspEvents(block.evs, first)]

(***************************************************************************)
(* extract_masp_tx and extract_payload_from_shielded_action                *)
(***************************************************************************)
\* tx.get_section(&hash)?.masp_tx()?, the first error message given.
MaspSection(ref, missing) ==
    IF ref = "absent"
    THEN Err(missing)
    ELSE IF ref \notin Payloads
    THEN Err("Missing masp transaction")
    ELSE Ok({}, ref)

\* `let changed_keys = if let Event(tx_event) = action_arg { .. } else
\* { BTreeSet::default() }`: the changed keys of the event's inner_tx
\* result, or the empty set for a request.
ChangedKeys(arg) ==
    IF arg.kind = "Event"
    THEN IF arg.ev.inner.st = "none"
         THEN Err("Missing required tx result in event")
         ELSE IF arg.ev.inner.st = "bad"
         THEN Err("TxResult::from_str")
         ELSE Ok(arg.ev.inner.keys, "none")
    ELSE Ok({}, "none")

\* The section found and the changed keys, or the first error of the two.
WithChangedKeys(section, arg) ==
    IF section.tag # "Ok"
    THEN section
    ELSE IF ChangedKeys(arg).tag # "Ok"
    THEN ChangedKeys(arg)
    ELSE Ok(ChangedKeys(arg).keys, section.masp)

\* namada_core::ibc::get_shielded_transfer(ibc_event).ok().flatten()
GetShieldedTransfer(e) == IF e \in Payloads THEN e ELSE "none"

EnvelopeFromEventDefault(ev) ==
    IF ev.inner.st = "bad"
    THEN Panic
    ELSE IF ev.inner.st = "none"
    THEN Ok({}, "p1")
    ELSE IF \A i \in 1..Len(ev.inner.ibc) : GetShieldedTransfer(ev.inner.ibc[i]) = "none"
    THEN Err("Couldn't deserialize masp tx to ibc message envelope")
    ELSE LET i == CHOOSE i \in 1..Len(ev.inner.ibc) :
                    /\ GetShieldedTransfer(ev.inner.ibc[i]) # "none"
                    /\ \A j \in 1..(i - 1) : GetShieldedTransfer(ev.inner.ibc[j]) = "none"
         IN  Ok(ev.inner.keys, GetShieldedTransfer(ev.inner.ibc[i]))

\* The find_map over the event's attributes on the envelope path: the
\* first ibc event of the inner_tx result with a shielded transfer.
EnvelopeFromEvent(ev) ==
    IF ev.inner.st = "bad"
    THEN Panic
    ELSE IF ev.inner.st = "none"
            \/ \A i \in 1..Len(ev.inner.ibc) : GetShieldedTransfer(ev.inner.ibc[i]) = "none"
    THEN Err("Couldn't deserialize masp tx to ibc message envelope")
    ELSE LET i == CHOOSE i \in 1..Len(ev.inner.ibc) :
                    /\ GetShieldedTransfer(ev.inner.ibc[i]) # "none"
                    /\ \A j \in 1..(i - 1) : GetShieldedTransfer(ev.inner.ibc[j]) = "none"
         IN  Ok(ev.inner.keys, GetShieldedTransfer(ev.inner.ibc[i]))

ExtractPayloadFromShieldedActionLenient(data, arg) ==
    IF data.kind = "shielded_transfer"
    THEN IF arg.kind = "Request"
         THEN Err("Unexpected event request for ShieldedTransfer")
         ELSE IF arg.ev.inner.st = "bad"
         THEN Panic
         ELSE IF arg.ev.inner.st = "none"
         THEN Err("Couldn't find changed keys in the event for the provided transaction")
         ELSE Ok(arg.ev.inner.keys, data.ref)
    ELSE IF data.kind \in {"envelope", "other_ibc"}
    THEN IF arg.kind = "Event"
         THEN EnvelopeFromEvent(arg.ev)
         ELSE LET found == GetIndexedMaspEventsAtHeight(arg.block, arg.floor)
              IN  IF found.tag = "Panic"
                  THEN Panic
                  ELSE IF found.tag = "Err"
                  THEN Err("QueryError::General")
                  ELSE IF found.tag = "None" \/ found.evs = <<>>
                  THEN Err("Missing required ibc event at block height")
                  ELSE EnvelopeFromEvent(found.evs[1][2])
    ELSE Err("decode_message")

\* namada_ibc::decode_message(tx_data) and the match on the message; the
\* unwrap of TxResult::from_str panics on an inner_tx that does not parse.
ExtractPayloadFromShieldedAction(data, arg) ==
    IF data.kind = "shielded_transfer"
    THEN IF arg.kind = "Request"
         THEN Err("Unexpected event request for ShieldedTransfer")
         ELSE IF arg.ev.inner.st = "bad"
         THEN Panic
         ELSE IF arg.ev.inner.st = "none"
         THEN Err("Couldn't find changed keys in the event for the provided transaction")
         ELSE Ok(arg.ev.inner.keys, data.ref)
    ELSE IF data.kind = "envelope"
    THEN IF arg.kind = "Event"
         THEN EnvelopeFromEvent(arg.ev)
         ELSE LET found == GetIndexedMaspEventsAtHeight(arg.block, arg.floor)
              IN  IF found.tag = "Panic"
                  THEN Panic
                  ELSE IF found.tag = "Err"
                  THEN Err("QueryError::General")
                  ELSE IF found.tag = "None" \/ found.evs = <<>>
                  THEN Err("Missing required ibc event at block height")
                  ELSE EnvelopeFromEvent(found.evs[1][2])
    ELSE IF data.kind = "other_ibc"
    THEN Err("Couldn't deserialize masp tx to a valid ibc message")
    ELSE Err("decode_message")

\* As ExtractMaspTx, but a Transfer without a shielded hash is tried again
\* as an envelope.
ExtractMaspTxRetrying(tx, arg, check) ==
    IF check /\ tx.wrapper # "notwrapper"
    THEN IF tx.wrapper = "none"
         THEN Err("Missing expected fee unshielding section hash")
         ELSE WithChangedKeys(MaspSection(tx.wrapper, "Missing expected masp section"), arg)
    ELSE IF tx.data.kind = "nodata"
    THEN Err("Missing data section")
    ELSE IF tx.data.kind = "transfer" /\ tx.data.ref # "none"
    THEN WithChangedKeys(MaspSection(tx.data.ref, "Missing masp section in transaction"), arg)
    ELSE ExtractPayloadFromShieldedAction([tx.data EXCEPT !.kind = "envelope"], arg)

\* extract_masp_tx: the fee-unshielding section of a wrapper when the
\* header is checked, else the data as a Transfer, else as an IbcMessage.
ExtractMaspTx(tx, arg, check) ==
    IF check /\ tx.wrapper # "notwrapper"
    THEN IF tx.wrapper = "none"
         THEN Err("Missing expected fee unshielding section hash")
         ELSE WithChangedKeys(MaspSection(tx.wrapper, "Missing expected masp section"), arg)
    ELSE IF tx.data.kind = "nodata"
    THEN Err("Missing data section")
    ELSE IF tx.data.kind = "transfer"
    THEN IF tx.data.ref = "none"
         THEN Err("Missing masp section hash")
         ELSE WithChangedKeys(MaspSection(tx.data.ref, "Missing masp section in transaction"), arg)
    ELSE ExtractPayloadFromShieldedAction(tx.data, arg)

\* The inputs of a call.
InitEx ==
    /\ xtx \in Txs
    /\ xarg \in Args
    /\ xcheck \in BOOLEAN
    /\ xpc = "call"
    /\ xres = NoResult
    /\ xagain = NoResult

CallExtractMaspTxConsuming ==
    /\ xpc = "call"
    /\ xres' = ExtractMaspTx(xtx, xarg, xcheck)
    /\ xpc' = "done"
    /\ xarg' = IF xarg.kind = "Event" THEN EventArg(NoEvent) ELSE RequestArg(NoBlock, xarg.floor)
    /\ UNCHANGED <<xtx, xcheck, xagain>>
    /\ UNCHANGED <<ldvars, fqvars, tmvars, evvars>>

\* extract_masp_tx(tx, action_arg, check_header) runs and returns; the
\* function takes &Tx and an argument of references and writes to neither.
CallExtractMaspTx ==
    /\ xpc = "call"
    /\ xres' = ExtractMaspTx(xtx, xarg, xcheck)
    /\ xpc' = "done"
    /\ UNCHANGED <<xtx, xarg, xcheck, xagain>>
    /\ UNCHANGED <<ldvars, fqvars, tmvars, evvars>>

\* The caller, having got a value back, calls extract_masp_tx again with
\* the same transaction and the same argument.
CallExtractMaspTxAgain ==
    /\ xpc = "done"
    /\ xres.tag # "Panic"
    /\ xagain' = ExtractMaspTx(xtx, xarg, xcheck)
    /\ xpc' = "twice"
    /\ UNCHANGED <<xtx, xarg, xcheck, xres>>
    /\ UNCHANGED <<ldvars, fqvars, tmvars, evvars>>

NextEx == CallExtractMaspTx \/ CallExtractMaspTxAgain

(***************************************************************************)
(* Composition of events: ComposeEvent::with, From<CompositeEvent> for     *)
(* Event, and the extensions.                                              *)
(***************************************************************************)
MaxChain == 3
\* EventAttributeEntry::KEY of the attribute extensions.
Keys == {"log", "info", "height"}
Absent == "absent"
\* A HashMap<String, String> over these keys: the value of each key, or
\* Absent.
NoAttributes == [k \in Keys |-> Absent]
AttributeMaps == [Keys -> {Absent, "old"}]
\* The extensions: Log(String), Info(String), Height(BlockHeight) and
\* Domain(EventSegment).
Log(v) == [kind |-> "Log", s |-> v, h |-> 0]
Info(v) == [kind |-> "Info", s |-> v, h |-> 0]
Height(n) == [kind |-> "Height", s |-> "", h |-> n]
Domain(d) == [kind |-> "Domain", s |-> d, h |-> 0]
Extensions == {Log("dejavu"), Log("last"), Info("dejavu"), Height(300), Domain("sparta")}
Key(x) == CASE x.kind = "Log" -> "log"
            [] x.kind = "Info" -> "info"
            [] x.kind = "Height" -> "height"
\* BlockHeight's Display: the decimal digits of the height.
HeightToString(n) == CASE n = 0 -> "0" [] n = 300 -> "300"
\* into_value().to_string()
ValueString(x) == IF x.kind = "Height" THEN HeightToString(x.h) ELSE x.s

\* Event::applied_tx(): no attributes.
AppliedTx == [domain |-> "tx", attrs |-> NoAttributes]
\* An event that already has attributes (an IbcEvent turned into an Event).
Bases == {AppliedTx, [domain |-> "ibc", attrs |-> [NoAttributes EXCEPT !["log"] = "old"]]}

RECURSIVE Chains(_)
Chains(n) ==
    IF n = 0
    THEN {<<>>}
    ELSE Chains(n - 1) \cup {Append(c, x) : c \in {d \in Chains(n - 1) : Len(d) = n - 1}, x \in Extensions}

InsertAttributeIfAbsent(attrs, key, value) ==
    IF attrs[key] = Absent THEN [attrs EXCEPT ![key] = value] ELSE attrs

\* insert_attribute of HashMap<String, String>: self.insert(key, value).
InsertAttribute(attrs, key, value) == [attrs EXCEPT ![key] = value]

\* extend_event: an attribute extension inserts its value at its KEY, a
\* Domain sets the domain of the event type.
ExtendEvent(event, x) ==
    IF x.kind = "Domain"
    THEN [event EXCEPT !.domain = x.s]
    ELSE [event EXCEPT !.attrs = InsertAttribute(@, Key(x), ValueString(x))]

\* From<CompositeEvent<DATA, E>> for Event: the base is converted first
\* (a composite base applies its own data), then data.extend_event runs.
RECURSIVE IntoEvent(_, _)
IntoEvent(base, chain) ==
    IF chain = <<>>
    THEN base
    ELSE ExtendEvent(IntoEvent(base, SubSeq(chain, 1, Len(chain) - 1)), chain[Len(chain)])

InitCompose ==
    /\ evBase \in Bases
    /\ evChain \in Chains(MaxChain)
    /\ evpc = "compose"
    /\ evOut = evBase

\* `let event: Event = base.with(..)...with(..).into()`
ComposeInto ==
    /\ evpc = "compose"
    /\ evOut' = IntoEvent(evBase, evChain)
    /\ evpc' = "done"
    /\ UNCHANGED <<evBase, evChain, dAttributes, dispatchList, dispatchBreaks,
                   dpos, dispatched, dpc>>
    /\ UNCHANGED <<ldvars, fqvars, tmvars, exvars>>

NextCompose == ComposeInto

(***************************************************************************)
(* dispatch_attribute                                                      *)
(***************************************************************************)
MaxList == 3
\* The kinds of the caller, each paired with the checker of an attribute
\* entry (attribute_checker::<DATA, _>()); the pairing is the caller's.
DispatchItems ==
    {[kind |-> "KLog", data |-> "Log"], [kind |-> "KInfo", data |-> "Info"],
     [kind |-> "KHeight", data |-> "Height"], [kind |-> "KOther", data |-> "Log"]}
Kinds == {i.kind : i \in DispatchItems}

RECURSIVE DispatchLists(_)
DispatchLists(n) ==
    IF n = 0
    THEN {<<>>}
    ELSE DispatchLists(n - 1)
            \cup {Append(l, i) : l \in {m \in DispatchLists(n - 1) : Len(m) = n - 1}, i \in DispatchItems}

\* is_attribute of HashMap<String, String>: self.contains_key(key)
IsAttribute(attrs, key) == attrs[key] # Absent
\* EventAttributeCheckerImpl::<DATA>::is_present
IsPresent(data, attrs) == IsAttribute(attrs, Key([kind |-> data]))

InitDispatch ==
    /\ dAttributes \in AttributeMaps
    /\ dispatchList \in DispatchLists(MaxList)
    /\ dispatchBreaks \in SUBSET {"KInfo", "KOther"}
    /\ dpos = 1
    /\ dispatched = <<>>
    /\ dpc = "loop"

DispatchVisitIgnoringBreak ==
    /\ dpc = "loop"
    /\ IF dpos > Len(dispatchList)
       THEN /\ dpc' = "returned"
            /\ UNCHANGED <<dpos, dispatched>>
       ELSE /\ dpos' = dpos + 1
            /\ dpc' = "loop"
            /\ dispatched' = IF IsPresent(dispatchList[dpos].data, dAttributes)
                             THEN Append(dispatched, dispatchList[dpos].kind)
                             ELSE dispatched
    /\ UNCHANGED <<evBase, evChain, evpc, evOut, dAttributes, dispatchList, dispatchBreaks>>
    /\ UNCHANGED <<ldvars, fqvars, tmvars, exvars>>

\* One turn of `for (kind, checker) in dispatch_list`: the list is
\* exhausted and the function returns; the checker finds no attribute
\* (continue); or the callback runs, and its Break leaves the loop.
DispatchVisit ==
    /\ dpc = "loop"
    /\ IF dpos > Len(dispatchList)
       THEN /\ dpc' = "returned"
            /\ UNCHANGED <<dpos, dispatched>>
       ELSE IF ~IsPresent(dispatchList[dpos].data, dAttributes)
       THEN /\ dpos' = dpos + 1
            /\ UNCHANGED <<dpc, dispatched>>
       ELSE /\ dispatched' = Append(dispatched, dispatchList[dpos].kind)
            /\ IF dispatchList[dpos].kind \in dispatchBreaks
               THEN /\ dpc' = "returned"
                    /\ UNCHANGED dpos
               ELSE /\ dpos' = dpos + 1
                    /\ UNCHANGED dpc
    /\ UNCHANGED <<evBase, evChain, evpc, evOut, dAttributes, dispatchList, dispatchBreaks>>
    /\ UNCHANGED <<ldvars, fqvars, tmvars, exvars>>

NextDispatch == DispatchVisit

(***************************************************************************)
(* EventType and its text, Event into abci Event (core/src/event.rs).      *)
(***************************************************************************)
\* enum EventType: the unit variants and Ibc(String).
EventType(k) == [kind |-> k, t |-> ""]
Ibc(t) == [kind |-> "Ibc", t |-> t]
NoType == [kind |-> "none", t |-> ""]
\* The ibc event kinds FromStr knows, and two other strings an Ibc(..) may
\* hold.
IbcKinds == {"update_client", "send_packet", "write_acknowledgement"}
EventTypes ==
    {EventType(k) : k \in {"Accepted", "Applied", "Proposal", "PgfPayment", "EthereumBridge"}}
        \cup {Ibc(t) : t \in IbcKinds \cup {"channel_open_init", "applied"}}
\* enum EventLevel
EventLevels == {"block", "tx"}
\* struct Event { event_type, level, attributes }
CoreEvents == [event_type : EventTypes, level : EventLevels, attributes : AttributeMaps]

\* impl Display for EventType
EventTypeDisplay(x) ==
    CASE x.kind = "Accepted" -> "accepted"
      [] x.kind = "Applied" -> "applied"
      [] x.kind = "Ibc" -> x.t
      [] x.kind = "Proposal" -> "proposal"
      [] x.kind = "PgfPayment" -> "pgf_payment"
      [] x.kind = "EthereumBridge" -> "ethereum_bridge"

\* Result<EventType, EventError>
ParsedType(x) == [tag |-> "Ok", val |-> x]
InvalidEventType == [tag |-> "Err", val |-> NoType]
NotParsed == [tag |-> "none", val |-> NoType]

\* impl FromStr for EventType
EventTypeFromStr(s) ==
    CASE s = "accepted" -> ParsedType(EventType("Accepted"))
      [] s = "applied" -> ParsedType(EventType("Applied"))
      [] s = "proposal" -> ParsedType(EventType("Proposal"))
      [] s = "pgf_payments" -> ParsedType(EventType("PgfPayment"))
      [] s = "update_client" -> ParsedType(Ibc("update_client"))
      [] s = "send_packet" -> ParsedType(Ibc("send_packet"))
      [] s = "write_acknowledgement" -> ParsedType(Ibc("write_acknowledgement"))
      [] s = "ethereum_bridge" -> ParsedType(EventType("EthereumBridge"))
      [] OTHER -> InvalidEventType

\* From<Event> for the abci Event: the type is event_type.to_string() and
\* every attribute is carried over with index: true.
NoAbciEvent == [type |-> "", attributes |-> {}]
IntoAbciEvent(e) ==
    [type |-> EventTypeDisplay(e.event_type),
     attributes |-> {[key |-> k, value |-> e.attributes[k], index |-> TRUE] :
                        k \in {j \in Keys : e.attributes[j] # Absent}}]

InitEventType ==
    \E e \in CoreEvents :
        ety = [event |-> e, pc |-> "event", abci |-> NoAbciEvent, parsed |-> NotParsed]

\* The event is converted for the ABCI response.
EventIntoAbci ==
    /\ ety.pc = "event"
    /\ ety' = [ety EXCEPT !.pc = "abci", !.abci = IntoAbciEvent(ety.event)]
    /\ UNCHANGED <<fqvars, tmvars, exvars, evvars, gov, vp, ibc>>

\* A reader of the response parses the type string of the abci Event.
ParseEventType ==
    /\ ety.pc = "abci"
    /\ ety' = [ety EXCEPT !.pc = "parsed", !.parsed = EventTypeFromStr(ety.abci.type)]
    /\ UNCHANGED <<fqvars, tmvars, exvars, evvars, gov, vp, ibc>>

NextEventType == EventIntoAbci \/ ParseEventType

(***************************************************************************)
(* IbcEvent, its equality and its order (core/src/ibc/event.rs).           *)
(***************************************************************************)
\* struct IbcEvent { event_type: String, attributes: HashMap<String, String> }
IbcEvents == [event_type : {"send_packet", "update_client"}, attributes : AttributeMaps]

\* str's Ord on the event types in use: the byte-wise lexicographic order
\* puts "send_packet" before "update_client" before "write_acknowledgement".
StrCmp(s, t) ==
    LET rank(x) == CASE x = "send_packet" -> 1
                     [] x = "update_client" -> 2
                     [] x = "write_acknowledgement" -> 3
    IN  IF rank(s) < rank(t) THEN "Less" ELSE IF rank(s) = rank(t) THEN "Equal" ELSE "Greater"

\* impl Ord for IbcEvent: self.event_type.cmp(&other.event_type)
IbcEventCmp(a, b) == StrCmp(a.event_type, b.event_type)

\* #[derive(PartialEq, Eq)] on IbcEvent: every field is compared.
IbcEventEq(a, b) == a.event_type = b.event_type /\ a.attributes = b.attributes

InitIbcEvent ==
    \E a \in IbcEvents, b \in IbcEvents :
        ibc = [a |-> a, b |-> b, pc |-> "call", ord |-> "none", eq |-> FALSE]

\* a.cmp(&b) and a == b are evaluated.
CompareIbcEvents ==
    /\ ibc.pc = "call"
    /\ ibc' = [ibc EXCEPT !.pc = "done",
                          !.ord = IbcEventCmp(ibc.a, ibc.b),
                          !.eq = IbcEventEq(ibc.a, ibc.b)]
    /\ UNCHANGED <<fqvars, tmvars, exvars, evvars, gov, vp, ety>>

NextIbcEvent == CompareIbcEvents

(***************************************************************************)
(* The shielded pool validity predicate (wasm_source/src/vp_masp.rs).      *)
(***************************************************************************)
\* The asset types of the transfer's token: timestamped with the current
\* epoch, as convert_amount makes it, or with an earlier one.
Assets == {"now", "earlier"}
\* masp Amount: a signed value for each asset type.
ZeroAmount == [a \in Assets |-> 0]
ValueBalances == [Assets -> {-1, 0, 1}]
AmountAdd(x, y) == [a \in Assets |-> x[a] + y[a]]
AmountSub(x, y) == [a \in Assets |-> x[a] - y[a]]
\* Amount::partial_cmp with Amount::zero(): the values are compared asset
\* by asset, and amounts that are above for one asset and below for
\* another are incomparable.
PartialCmpZero(x) ==
    IF \A a \in Assets : x[a] = 0 THEN "Equal"
    ELSE IF \A a \in Assets : x[a] <= 0 THEN "Less"
    ELSE IF \A a \in Assets : x[a] >= 0 THEN "Greater"
    ELSE "None"

\* convert_amount(epoch, token, val): the value in the asset type of the
\* current epoch.
ConvertAmount(val) == [a \in Assets |-> IF a = "now" THEN val ELSE 0]

\* The arguments of a call: what tx_data.data() decodes to, what the
\* transfer's shielded hash leads to, the sapling value balance of the
\* shielded section, the transfer's amount, whether source and target are
\* the pool, and what the host's proof verification answers.
VpCalls ==
    [data : {"nodata", "garbage", "transfer"}, ref : SectionRefs,
     balance : ValueBalances, amount : {0, 1},
     source_masp : BOOLEAN, target_masp : BOOLEAN, verify : BOOLEAN]

\* As ValidateTx, but only a negative pool is rejected.
ValidateTxNegativeOnly(c) ==
    IF c.data # "transfer"
    THEN "panic"
    ELSE IF c.ref = "none"
    THEN "reject"
    ELSE IF c.ref \notin Payloads
    THEN "error"
    ELSE LET amt == ConvertAmount(c.amount)
             shielding == IF c.source_masp THEN c.balance ELSE AmountAdd(c.balance, amt)
             pool == IF c.target_masp THEN shielding ELSE AmountSub(shielding, amt)
         IN  IF PartialCmpZero(pool) = "Less"
             THEN "reject"
             ELSE IF c.verify THEN "accept" ELSE "reject"

\* validate_tx: "accept" and "reject" are Ok(true) and Ok(false), "error"
\* the Err of `?`, "panic" an unwrap of missing or undecodable data.
ValidateTx(c) ==
    IF c.data # "transfer"
    THEN "panic"
    ELSE IF c.ref = "none"
    THEN "reject"
    ELSE IF c.ref \notin Payloads
    THEN "error"
    ELSE LET amt == ConvertAmount(c.amount)
             shielding == IF c.source_masp THEN c.balance ELSE AmountAdd(c.balance, amt)
             pool == IF c.target_masp THEN shielding ELSE AmountSub(shielding, amt)
         IN  IF PartialCmpZero(pool) \in {"None", "Less"}
             THEN "reject"
             ELSE IF c.verify THEN "accept" ELSE "reject"

InitVp == \E c \in VpCalls : vp = [call |-> c, pc |-> "call", res |-> "none"]

\* The VP is run on the transaction.
CallValidateTx ==
    /\ vp.pc = "call"
    /\ vp' = [vp EXCEPT !.pc = "done", !.res = ValidateTx(vp.call)]
    /\ UNCHANGED <<fqvars, tmvars, exvars, evvars, gov, ety, ibc>>

NextVp == CallValidateTx

(***************************************************************************)
(* execute_governance_proposals (apps/.../shell/governance.rs).            *)
(***************************************************************************)
MaxProposals == 2
\* proposal_ids: BTreeSet<u64>, iterated in ascending order.
ProposalIds == 1..MaxProposals
\* What the storage and the tally hold for a proposal: the result of
\* compute_proposal_result, whether get_proposal_author finds an author,
\* and the step of the iteration whose `?` returns an error, if any: a
\* read before the result is written, the execution of a passed
\* proposal, the read of the author, or the token transfer or burn.
Proposals ==
    [tally : {"Passed", "Rejected"}, author : BOOLEAN,
     fails : {"none", "read", "execute", "author", "settle"}]

InitGov ==
    \E ps \in [ProposalIds -> Proposals] :
        gov = [props |-> ps,
               todo |-> ProposalIds,
               cur |-> 0,
               pc |-> "loop",
               passed |-> <<>>,
               rejected |-> <<>>,
               results |-> [i \in ProposalIds |-> "none"],
               address |-> FALSE,
               transfers |-> [i \in ProposalIds |-> 0],
               burns |-> [i \in ProposalIds |-> 0],
               ret |-> "none"]

\* The next id of the for loop.
NextId == CHOOSE i \in gov.todo : \A j \in gov.todo : i <= j

\* `for id in proposal_ids`: the reads of the proposal, the tally and
\* gov_api::write_proposal_result; an error of a read returns.
GovTally ==
    /\ gov.pc = "loop"
    /\ gov.todo # {}
    /\ IF gov.props[NextId].fails = "read"
       THEN gov' = [gov EXCEPT !.pc = "returned", !.ret = "Err", !.cur = NextId]
       ELSE gov' = [gov EXCEPT !.pc = "match", !.cur = NextId,
                               !.results[NextId] = gov.props[NextId].tally]
    /\ UNCHANGED <<fqvars, tmvars, exvars, evvars, vp, ety, ibc>>

\* `match proposal_result.result`: a passed proposal is executed, its id
\* pushed to passed and its author looked up; a rejected one is pushed to
\* rejected and has no transfer address.
GovMatch ==
    /\ gov.pc = "match"
    /\ LET p == gov.props[gov.cur]
       IN  IF p.tally = "Passed"
           THEN IF p.fails = "execute"
                THEN gov' = [gov EXCEPT !.pc = "returned", !.ret = "Err"]
                ELSE IF p.fails = "author"
                THEN gov' = [gov EXCEPT !.pc = "returned", !.ret = "Err",
                                        !.passed = Append(@, gov.cur)]
                ELSE gov' = [gov EXCEPT !.pc = "settle",
                                        !.passed = Append(@, gov.cur),
                                        !.address = p.author]
           ELSE gov' = [gov EXCEPT !.pc = "settle",
                                   !.rejected = Append(@, gov.cur),
                                   !.address = FALSE]
    /\ UNCHANGED <<fqvars, tmvars, exvars, evvars, vp, ety, ibc>>

\* As GovSettle, but the funds of a proposal with a transfer address are
\* burned as well.
GovSettleBurningToo ==
    /\ gov.pc = "settle"
    /\ IF gov.props[gov.cur].fails = "settle"
       THEN gov' = [gov EXCEPT !.pc = "returned", !.ret = "Err"]
       ELSE IF gov.address
       THEN gov' = [gov EXCEPT !.pc = "loop", !.todo = @ \ {gov.cur},
                               !.transfers[gov.cur] = @ + 1,
                               !.burns[gov.cur] = @ + 1]
       ELSE gov' = [gov EXCEPT !.pc = "loop", !.todo = @ \ {gov.cur},
                               !.burns[gov.cur] = @ + 1]
    /\ UNCHANGED <<fqvars, tmvars, exvars, evvars, vp, ety, ibc>>

\* `if let Some(address) = transfer_address { token::transfer(..)? } else
\* { token::burn_tokens(..)? }`, the end of the iteration.
GovSettle ==
    /\ gov.pc = "settle"
    /\ IF gov.props[gov.cur].fails = "settle"
       THEN gov' = [gov EXCEPT !.pc = "returned", !.ret = "Err"]
       ELSE IF gov.address
       THEN gov' = [gov EXCEPT !.pc = "loop", !.todo = @ \ {gov.cur},
                               !.transfers[gov.cur] = @ + 1]
       ELSE gov' = [gov EXCEPT !.pc = "loop", !.todo = @ \ {gov.cur},
                               !.burns[gov.cur] = @ + 1]
    /\ UNCHANGED <<fqvars, tmvars, exvars, evvars, vp, ety, ibc>>

\* Ok(proposals_result) after the last id.
GovReturn ==
    /\ gov.pc = "loop"
    /\ gov.todo = {}
    /\ gov' = [gov EXCEPT !.pc = "returned", !.ret = "Ok"]
    /\ UNCHANGED <<fqvars, tmvars, exvars, evvars, vp, ety, ibc>>

NextGov == GovTally \/ GovMatch \/ GovSettle \/ GovReturn

(***************************************************************************)
(* The ledger components at rest.                                          *)
(***************************************************************************)
\* No run of execute_governance_proposals, no call of validate_tx, no
\* event converted and no events compared in the session.
IdleGov == gov = [pc |-> "none"]
IdleVp == vp = [pc |-> "none"]
IdleEventType == ety = [pc |-> "none"]
IdleIbcEvent == ibc = [pc |-> "none"]
IdleLd == IdleGov /\ IdleVp /\ IdleEventType /\ IdleIbcEvent

(***************************************************************************)
(* Specifications.                                                         *)
(***************************************************************************)
\* The component a specification leaves alone stays in its first state.
IdleFQ ==
    /\ InitFQ
    /\ cache = {}
    /\ lastQueryHeight = MaxHeight
IdleTM ==
    /\ InitTM
    /\ ctx = DefaultCtx

IdleEx ==
    /\ xtx = [wrapper |-> "notwrapper", data |-> [kind |-> "nodata", ref |-> "none"]]
    /\ xarg = EventArg(NoEvent)
    /\ xcheck = FALSE
    /\ xpc = "call"
    /\ xres = NoResult
    /\ xagain = NoResult

IdleCompose ==
    /\ evBase = AppliedTx
    /\ evChain = <<>>
    /\ evpc = "compose"
    /\ evOut = AppliedTx
IdleDispatch ==
    /\ dAttributes = NoAttributes
    /\ dispatchList = <<>>
    /\ dispatchBreaks = {}
    /\ dpos = 1
    /\ dispatched = <<>>
    /\ dpc = "loop"
IdleEv == IdleCompose /\ IdleDispatch

\* A fetch queue session beside an untouched task manager.
InitSpecFQ == IdleLd /\ IdleEv /\ IdleEx /\ IdleTM /\ InitFQ /\ lastQueryHeight = MaxHeight
\* A fetch queue session up to any last query height.
InitSpecFQS == IdleLd /\ IdleEv /\ IdleEx /\ IdleTM /\ InitFQ
\* A task manager session beside an untouched fetch queue.
InitSpecTM == IdleLd /\ IdleEv /\ IdleEx /\ IdleFQ /\ InitTM
\* Calls of extract_masp_tx, the queue and the task manager untouched.
InitSpecEx == IdleLd /\ IdleEv /\ IdleFQ /\ IdleTM /\ InitEx
\* Conversions of composite events.
InitSpecCompose == IdleLd /\ IdleFQ /\ IdleTM /\ IdleEx /\ IdleDispatch /\ InitCompose
\* Calls of dispatch_attribute.
InitSpecDispatch == IdleLd /\ IdleFQ /\ IdleTM /\ IdleEx /\ IdleCompose /\ InitDispatch

SpecFQ == InitSpecFQ /\ [][NextFQ]_vars

\* The scan stage keeps running its next() call: every step of a call in
\* progress is eventually taken.
SpecFQFair == SpecFQ /\ \A r \in Receivers : WF_vars(NextSenderAlive(r) \/ NextPollPop(r))

\* A fetch queue session whose fetch stage calls contains_height.
SpecFQC == InitSpecFQ /\ [][NextFQC]_vars

\* A fetch queue session that starts with the empty cache and whose scan
\* stage clones the receiver.
InitSpecFQR == IdleLd /\ IdleEv /\ IdleEx /\ IdleTM /\ IdleFQ
SpecFQR == InitSpecFQR /\ [][NextFQR]_vars

\* A fetch queue session whose scan stage calls size_hint.
SpecFQS == InitSpecFQS /\ [][NextFQS]_vars

SpecTM == InitSpecTM /\ [][NextTM]_vars

SpecEx == InitSpecEx /\ [][NextEx]_vars

SpecCompose == InitSpecCompose /\ [][NextCompose]_vars

SpecDispatch == InitSpecDispatch /\ [][NextDispatch]_vars

\* Runs of execute_governance_proposals.
InitSpecGov == IdleVp /\ IdleEventType /\ IdleIbcEvent /\ IdleEv /\ IdleEx /\ IdleFQ /\ IdleTM /\ InitGov
SpecGov == InitSpecGov /\ [][NextGov]_vars

\* Calls of the shielded pool validate_tx.
InitSpecVp == IdleGov /\ IdleEventType /\ IdleIbcEvent /\ IdleEv /\ IdleEx /\ IdleFQ /\ IdleTM /\ InitVp
SpecVp == InitSpecVp /\ [][NextVp]_vars

\* Events converted for the ABCI response and their type parsed back.
InitSpecEventType == IdleGov /\ IdleVp /\ IdleIbcEvent /\ IdleEv /\ IdleEx /\ IdleFQ /\ IdleTM /\ InitEventType
SpecEventType == InitSpecEventType /\ [][NextEventType]_vars

\* Comparisons of two IbcEvents.
InitSpecIbcEvent == IdleGov /\ IdleVp /\ IdleEventType /\ IdleEv /\ IdleEx /\ IdleFQ /\ IdleTM /\ InitIbcEvent
SpecIbcEvent == InitSpecIbcEvent /\ [][NextIbcEvent]_vars

(***************************************************************************)
(* Properties of the fetch queue.                                          *)
(***************************************************************************)
NonDecreasing(q) == \A i, j \in 1..Len(q) : i < j => IndexedTxLe(q[i], q[j])

RECURSIVE SortedSeq(_)
SortedSeq(S) == IF S = {} THEN <<>>
                ELSE <<FirstEntry(S)>> \o SortedSeq(S \ {FirstEntry(S)})

\* C1: next() returns None only when the cache is empty and no live sender
\* remains (so no entry passed to send is left behind when the sequence
\* ends).
C1_NoneOnlyWhenDrained ==
    \A r \in Receivers : lastRet[r] = "None" => (cache = {} /\ SenderCount = 0)

C3_DrainAfterClose ==
    firstNext = "closed" =>
        \A r \in Receivers :
            /\ Len(yielded[r]) <= Cardinality(sent)
            /\ yielded[r] = SubSeq(SortedSeq(sent), 1, Len(yielded[r]))
            /\ lastRet[r] = "None" => yielded[r] = SortedSeq(sent)

\* The scenario of the spec with heights 3, 1, 2 for 10, 8, 9: sent in that
\* order, the sender dropped, then drained to None.
C3_Witness ==
    /\ firstNext = "closed"
    /\ lastFetched = <<3, 1, 2>>
    /\ yielded[1] = <<<<1, 0>>, <<2, 0>>, <<3, 0>>>>
    /\ lastRet[1] = "None"

\* C4: a next() call that is polling while every sender is dropped and the
\* cache is empty eventually returns None.
C4_PendingNextTerminates ==
    \A r \in Receivers :
        (rpc[r] \in {"poll", "polltry"} /\ SenderCount = 0 /\ cache = {})
            ~> (rpc[r] = "idle" /\ lastRet[r] = "None")

\* A next() call is inside its polling loop, the last sender has been
\* dropped without any signal and the cache is empty.
C4_Witness ==
    /\ rpc[1] = "polltry"
    /\ SenderCount = 0
    /\ cache = {}
    /\ \E s \in Senders : spc[s] = "dropped"

(***************************************************************************)
(* Properties of the persistence task manager.                             *)
(***************************************************************************)
InCall(c) == cpc[c] \in {"acquire", "apply", "send"}
\* A caller that cannot take its next step: spinning on a held mutex, or
\* waiting for room in the full request channel.
CallerBlocked(c) ==
    \/ cpc[c] = "acquire" /\ lock # Free
    \/ cpc[c] = "send" /\ ~mgrDropped /\ Len(chan) >= ChanCap
\* run() waits for the mutex.
ActorBlocked == apc = "lock" /\ lock # Free
\* Every party that is inside an operation is blocked, the actor among them.
AllBlocked ==
    /\ ActorBlocked
    /\ \E c \in Callers : InCall(c)
    /\ \A c \in Callers : InCall(c) => CallerBlocked(c)

\* C5: under every interleaving of the callers with the actor's run loop
\* the system never reaches a state in which all parties are blocked.
C5_NeverAllBlocked == ~AllBlocked

\* C6: once a mutation has failed, the durable state stays exactly as the
\* last save before the failure left it (no later durable write changes
\* it).
C6_DurableFrozenAfterFailure == [][failed => durable' = durable]_vars

\* C7: for every viewing key the checkpoint contained in successive
\* durable saves is non-decreasing, an absent key counting as lowest.
C7_SavedCheckpointMonotone ==
    [][\A k \in ViewingKeys :
          Checkpoint(durable'.vk, k) >= Checkpoint(durable.vk, k)]_vars

CompleteSubmitted == \E i \in 1..Len(submitted) : submitted[i] = Complete

\* C8: a complete() call made after a Complete request was already
\* submitted neither panics nor is left waiting on a channel nobody
\* receives from.
C8_SecondCompleteSafe ==
    \A c \in Callers :
        (cop[c].op = "complete" /\ CompleteSubmitted) =>
            /\ cpc[c] # "panicked"
            /\ ~(cpc[c] = "send" /\ apc = "returned" /\ Len(chan) >= ChanCap)

IsPrefix(p, q) == Len(p) <= Len(q) /\ \A i \in 1..Len(p) : p[i] = q[i]
LastProcessed == processed[Len(processed)]

C10_FailureSubmitsComplete ==
    \A c \in Callers :
        (cpc[c] = "idle" /\ cop[c].op \in Mutations /\ cop[c].ret # "none") =>
            /\ cop[c].ret = cop[c].res
            /\ cop[c].sc <=> (cop[c].res \in Errors)
            /\ cop[c].sc => CompleteSubmitted

\* scan_tx has returned the error of the context's scan_tx after
\* submitting a Complete.
C10_Witness ==
    \E c \in Callers :
        /\ cpc[c] = "idle"
        /\ cop[c].op = "scan_tx"
        /\ cop[c].ret = "crypto"
        /\ cop[c].sc
        /\ chan = <<Complete>>

\* C11: a save() call is never left waiting for room in the request
\* channel, however many requests are submitted and not yet processed.
C11_SaveNeverWaits ==
    \A c \in Callers :
        ~(cpc[c] = "send" /\ cop[c].op = "save" /\ ~mgrDropped /\ Len(chan) >= ChanCap)

\* The parties inside a critical section on the context: a caller applying
\* its operation, a caller whose failed mutation is in complete() with the
\* guard alive, the actor inside the durable save.
Holders ==
    {c \in Callers : cpc[c] = "apply" \/ (cpc[c] = "send" /\ cop[c].op \in Mutations)}
        \cup (IF apc = "save" THEN {Actor} ELSE {})

\* C12: at every moment at most one party is inside a critical section and
\* it is the owner of the mutex; the context changes only in a step of the
\* caller that owns the mutex, and the durable state only in a step of the
\* actor that owns it, with no caller inside an operation on the context.
C12_MutualExclusion ==
    /\ [](/\ Cardinality(Holders) <= 1
          /\ Holders = (IF lock = Free THEN {} ELSE {lock}))
    /\ [][/\ ctx' # ctx => (lock \in Callers /\ cpc[lock] = "apply" /\ cpc'[lock] # "apply")
          /\ durable' # durable => (lock = Actor /\ \A c \in Callers : cpc[c] # "apply")]_vars

\* Caller 2 waits in acquire() while caller 1 applies its operation.
C12_Witness ==
    /\ cpc[1] = "apply"
    /\ cpc[2] = "acquire"
    /\ lock = 1

\* C13: once next() has returned None on a receiver, no later next() on
\* that receiver returns an entry.
C13_NoneIsFinal ==
    [][\A r \in Receivers : lastRet[r] = "None" => lastRet'[r] # "Some"]_vars

\* C14: while a receiver exists a send() can always take its next step,
\* whatever the receiver is doing and however many heights are already
\* published; at the step in which it returns, its entry is in the shared
\* cache and its height is among the published heights.
C14_SendNeverBlocks ==
    /\ [](\A s \in Senders :
            /\ (spc[s] = "idle" /\ ReceiverCount > 0 /\ nsends < MaxSends) =>
                   \A e \in IndexedTxs : ENABLED (SendPublish(s, e) /\ spc'[s] = "insert")
            /\ spc[s] = "insert" => ENABLED SendInsert(s))
    /\ [][\A s \in Senders :
            (spc[s] = "insert" /\ spc'[s] = "idle") =>
                /\ sdata[s] \in cache'
                /\ \E i \in 1..Len(lastFetched') : lastFetched'[i] = sdata[s][1]]_vars

\* Two sends have returned while the receiver never called next().
C14_Witness ==
    /\ lastFetched = <<1, 3>>
    /\ cache = {<<1, 0>>, <<3, 0>>}
    /\ \A s \in Senders : spc[s] # "insert"
    /\ rpc[1] = "idle"
    /\ yielded[1] = <<>>

\* C15: contains_height(h) can be called by every idle sender handle, it
\* returns true exactly when the cache holds an entry at height h and it
\* leaves the cache and the published heights as they are; an entry leaves
\* the cache only in a step of next() that yields it.
C15_ContainsHeightReadOnly ==
    /\ [](\A s \in Senders : spc[s] = "idle" =>
              \A h \in QueriedHeights : ENABLED ContainsHeight(s, h))
    /\ [][/\ containsRet' # NoQuery =>
                /\ containsRet'[2] <=> (\E e \in cache : e[1] = containsRet'[1])
                /\ cache' = cache
                /\ lastFetched' = lastFetched
          /\ cache \ cache' # {} =>
                \E r \in Receivers : \E e \in cache :
                    /\ cache \ cache' = {e}
                    /\ yielded'[r] = Append(yielded[r], e)]_vars

\* contains_height(2) returned false for a height that was sent and
\* published: next() has taken the entry out of the cache.
C15_Witness ==
    /\ containsRet = <<2, FALSE>>
    /\ <<2, 0>> \in sent
    /\ yielded[1] # <<>>

\* A step in which caller c returns from the operation op on the context.
Returns(c, op) == cpc[c] = "apply" /\ cop[c].op = op /\ cpc'[c] = "idle"

\* C16: get_vk_heights returns the context's whole checkpoint map and
\* leaves an empty map in the context, set_vk_heights(m) makes the
\* context's map equal to m, neither changes the witness map, and a
\* session that only did a get_vk_heights followed by a set_vk_heights of
\* the returned map has the context it started with.
C16_VkHeightsSwap ==
    /\ [](\A c \in Callers :
            (cpc[c] = "idle" /\ cop[c].op = "set_vk_heights" /\ cop[c].ret = "ok"
                /\ ncalls = 2) => ctx = durable)
    /\ [][\A c \in Callers :
            /\ Returns(c, "get_vk_heights") =>
                  /\ held'[c] = [has |-> TRUE, m |-> ctx.vk]
                  /\ ctx'.vk = EmptyMap
                  /\ ctx'.wit = ctx.wit
            /\ Returns(c, "set_vk_heights") =>
                  /\ ctx'.vk = held[c].m
                  /\ ctx'.wit = ctx.wit]_vars

\* A context loaded with checkpoints has them again after its map was
\* taken out and handed back.
C16_Witness ==
    /\ ncalls = 2
    /\ cpc[1] = "idle"
    /\ cop[1].op = "set_vk_heights"
    /\ cop[1].ret = "ok"
    /\ ctx.vk = [k \in ViewingKeys |-> <<1, 0>>]

C31_SaveWritesSubmittedContext ==
    \A h \in SaveHeights :
        ( /\ ncalls = 2
          /\ cpc[2] = "unused"
          /\ cop[1].op = "update_witness_map"
          /\ submitted # <<>>
          /\ submitted[1] = Data(h) ) =>
            durable = [ctx EXCEPT !.wit = <<>>]

\* C34: the step that ends a durable write, failed or not, leaves run()
\* waiting for the next request with the mutex released, keeps the height
\* of the request as latest_height, changes nothing of any caller or of
\* the channel, and writes either the context or nothing; and the step
\* in which run() leaves its wait with a request in the channel takes the
\* oldest request.
C34_FailedWriteKeepsRunning ==
    [][/\ (apc = "save" /\ apc' # "save") =>
            /\ apc' = "recv"
            /\ lock' = Free
            /\ latestHeight' = latestHeight
            /\ LastProcessed = Data(latestHeight)
            /\ durable' \in {durable, ctx}
            /\ UNCHANGED <<ctx, chan, cpc, cop, held, submitted, processed>>
       /\ (apc = "recv" /\ apc' # "recv" /\ chan # <<>>) =>
            /\ processed' = Append(processed, Head(chan))
            /\ chan' = Tail(chan)]_vars

\* The only handle in use called update_witness_map and two saves, the
\* second save last: each write found the updated context or its save was
\* submitted after the update; the durable state still has the empty
\* witness map, so a write of the updated context failed, and run() took
\* the second save after the first and waits for the next request.
C34_Witness ==
    /\ ncalls = 3
    /\ cpc[2] = "unused"
    /\ cop[1].op = "save"
    /\ processed = <<Data(1), Data(2)>>
    /\ apc = "recv"
    /\ latestHeight = 2
    /\ ctx.wit # <<>>
    /\ durable.wit = <<>>

\* C28: size_hint returns as both bounds the last query height minus the
\* lowest height in the cache, and the call changes nothing of the queue.
C28_SizeHintIsGap ==
    [][\A r \in Receivers :
          (rpc[r] = "idle" /\ sizeRet' # NoHint) =>
              /\ cache # {} =>
                    /\ sizeRet'.tag = "Some"
                    /\ sizeRet'.lo = lastQueryHeight - FirstEntry(cache)[1]
                    /\ sizeRet'.hi = sizeRet'.lo
              /\ UNCHANGED <<cache, lastFetched, spc, sdata, rpc, yielded,
                             lastQueryHeight>>]_vars

\* How many times the entry was yielded, over all receiver handles, and
\* how many sends of it were published.
Yields(e) ==
    Cardinality({<<r, i>> \in ReceiverHandles \X (1..MaxSends) :
                    i <= Len(yielded[r]) /\ yielded[r][i] = e})
Published(e) == Cardinality({i \in 1..Len(lastFetched) : lastFetched[i] = e[1]})

\* C32: with clones of the receiver draining a cache that started empty,
\* an entry was yielded, over all clones, at most as many times as it was
\* sent, counting a copy still in the cache; and every step that yields
\* an entry takes it out of the shared cache and gives it to one next()
\* call of one clone.
C32_DeliveredAtMostOnce ==
    /\ [](\A e \in IndexedTxs :
            Yields(e) + (IF e \in cache THEN 1 ELSE 0) <= Published(e))
    /\ [][\A r \in ReceiverHandles :
            yielded'[r] # yielded[r] =>
                /\ cache # {}
                /\ cache' = cache \ {FirstEntry(cache)}
                /\ yielded'[r] = Append(yielded[r], FirstEntry(cache))
                /\ \A q \in ReceiverHandles \ {r} : yielded'[q] = yielded[q]]_vars

\* Two clones polled the empty cache at the same time; each of the two
\* entries sent went to one of them.
C32_Witness ==
    /\ yielded[1] = << <<2, 0>> >>
    /\ yielded[2] = << <<1, 0>> >>
    /\ lastFetched = <<1, 2>>
    /\ cache = {}
    /\ rpc[1] = "polltry"
    /\ rpc[2] = "poll"

\* C33: size_hint never underestimates and never underflows: the lowest
\* height in the cache is never above last_query_height, and every value
\* size_hint returns is the result of a subtraction that did not
\* underflow and is at least the number of entries still in the cache,
\* which the receiver has yet to yield.
C33_SizeHintNeverUnder ==
    /\ [](cache # {} => FirstEntry(cache)[1] <= lastQueryHeight)
    /\ [][sizeRet' # NoHint =>
            /\ sizeRet'.tag = "Some"
            /\ sizeRet'.lo >= Cardinality(cache)]_vars

(***************************************************************************)
(* Properties of the extraction.                                           *)
(***************************************************************************)
\* The call finds a payload of one of the three supported shapes: the
\* fee-unshielding section of a wrapper examined with the header check, a
\* Transfer with a shielded section, a ShieldedTransfer message.
SupportedShape ==
    \/ xcheck /\ xtx.wrapper \in Payloads
    \/ /\ ~(xcheck /\ xtx.wrapper # "notwrapper")
       /\ \/ xtx.data.kind = "transfer" /\ xtx.data.ref \in Payloads
          \/ xtx.data.kind = "shielded_transfer"

\* C20: extract_masp_tx called with a request argument on a payload of a
\* supported shape returns Ok with an empty set of changed keys.
C20_RequestGivesEmptyChangedKeys ==
    (xpc = "done" /\ xarg.kind = "Request" /\ SupportedShape) =>
        (xres.tag = "Ok" /\ xres.keys = {})

\* The header check does not take the wrapper branch: the data of the
\* transaction is what the call decodes.
DataPath == ~(xcheck /\ xtx.wrapper # "notwrapper")

\* C21: a transaction without a fee-unshielding section reference (not a
\* wrapper, or a wrapper whose reference is missing, header checked or
\* not) gets the result of decoding its data as a transfer and then as an
\* inter-chain message, as if it had no wrapper header.
C21_NoUnshieldingFallsThrough ==
    (xpc = "done" /\ xtx.wrapper \in {"notwrapper", "none"}) =>
        xres = ExtractMaspTx([xtx EXCEPT !.wrapper = "notwrapper"], xarg, xcheck)

\* C22: with the header checked and a wrapper whose fee-unshielding
\* section holds a shielded payload, the call returns that payload in
\* every context: a request, an event with inner_tx, an event without.
C22_UnshieldingNeedsNoResult ==
    (xpc = "done" /\ xcheck /\ xtx.wrapper \in Payloads) =>
        (xres.tag = "Ok" /\ xres.masp = xtx.wrapper)

\* The call reads an event attribute that does not parse: the inner_tx of
\* the event it was given, once the payload was found or has to come from
\* the event, or an is_valid_masp_tx of the block it queries.
ReadsMalformed ==
    \/ /\ xarg.kind = "Event"
       /\ xarg.ev.inner.st = "bad"
       /\ \/ xcheck /\ xtx.wrapper \in Payloads
          \/ DataPath /\ xtx.data.kind = "transfer" /\ xtx.data.ref \in Payloads
          \/ DataPath /\ xtx.data.kind \in {"shielded_transfer", "envelope"}
    \/ /\ xarg.kind = "Request"
       /\ DataPath
       /\ xtx.data.kind = "envelope"
       /\ xarg.block.st = "events"
       /\ \E i \in 1..Len(xarg.block.evs) : xarg.block.evs[i].masp[1] = "bad"

\* C23: a call that reads a malformed event attribute returns an error
\* value: no payload, no default, and no abort of the process.
C23_MalformedIsError ==
    (xpc = "done" /\ ReadsMalformed) => xres.tag = "Err"

\* The positions of the events of the queried block whose masp index is
\* at or above the floor (0 without a floor).
Remaining ==
    {i \in 1..Len(xarg.block.evs) :
        /\ xarg.block.evs[i].masp[1] = "ok"
        /\ xarg.block.evs[i].masp[2] >= (IF xarg.floor[1] = "some" THEN xarg.floor[2] ELSE 0)}

\* An envelope decoded in the request context, the block results read and
\* every masp index in them well formed.
EnvelopeRequest ==
    /\ DataPath
    /\ xtx.data.kind = "envelope"
    /\ xarg.kind = "Request"
    /\ xarg.block.st # "rpcerr"
    /\ \A i \in 1..Len(xarg.block.evs) : xarg.block.evs[i].masp[1] # "bad"

\* C24: an envelope in the request context takes payload and changed keys
\* from the first event of the block whose masp index is not below the
\* floor, whatever the events before it hold, and returns the missing
\* event error when the block has no such event.
C24_EnvelopeFromRequest ==
    (xpc = "done" /\ EnvelopeRequest) =>
        IF Remaining = {}
        THEN xres = Err("Missing required ibc event at block height")
        ELSE LET first == CHOOSE i \in Remaining : \A j \in Remaining : i <= j
                 inner == xarg.block.evs[first].inner
                 found == {i \in 1..Len(inner.ibc) : inner.ibc[i] \in Payloads}
             IN  /\ xres = ExtractMaspTx(xtx, EventArg(xarg.block.evs[first]), xcheck)
                 /\ (inner.st = "ok" /\ found # {}) =>
                        /\ xres.tag = "Ok"
                        /\ xres.keys = inner.keys
                        /\ xres.masp = inner.ibc[CHOOSE i \in found : \A j \in found : i <= j]
                 /\ (inner.st = "none" \/ (inner.st = "ok" /\ found = {})) => xres.tag = "Err"

\* The first event of the block is below the floor 1: the payload of the
\* second one was returned.
C24_Witness ==
    /\ xpc = "done"
    /\ EnvelopeRequest
    /\ xarg.block.evs = <<MaspEvent(0, "p1"), MaspEvent(1, "p2")>>
    /\ xarg.floor = <<"some", 1>>
    /\ xres = Ok({"k1"}, "p2")

\* An envelope decoded from an event that has no inner_tx attribute.
EnvelopeEventWithoutInnerTx ==
    /\ DataPath
    /\ xtx.data.kind = "envelope"
    /\ xarg.kind = "Event"
    /\ xarg.ev.inner.st = "none"

\* C25: the call on an envelope with an event that has no inner_tx
\* returns an error, and the step changes nothing but the returned value:
\* not the queue and its cache, not the context with its witness map and
\* checkpoints, not the arguments.
C25_MissingInnerTxOnEnvelope ==
    [][(xpc = "call" /\ xpc' = "done" /\ EnvelopeEventWithoutInnerTx) =>
          /\ xres'.tag = "Err"
          /\ xres'.masp = "none"
          /\ UNCHANGED <<fqvars, tmvars, xtx, xarg, xcheck>>]_vars

C25_Witness ==
    /\ xpc = "done"
    /\ EnvelopeEventWithoutInnerTx
    /\ xres = Err("Couldn't deserialize masp tx to ibc message envelope")

\* The data is neither a Transfer nor a ShieldedTransfer or Envelope
\* message: another IbcMessage, or bytes that decode as no message.
UnsupportedKind == DataPath /\ xtx.data.kind \in {"other_ibc", "garbage"}

\* C26: data of an unsupported kind makes the call return an error, in
\* every context, and never a payload.
C26_UnsupportedKindFails ==
    (xpc = "done" /\ UnsupportedKind) =>
        /\ xres.tag = "Err"
        /\ xres.masp = "none"
        /\ xres.keys = {}

C26_Witness ==
    /\ xpc = "done"
    /\ UnsupportedKind
    /\ xarg.kind = "Request"
    /\ xarg.block.evs = <<MaspEvent(0, "p1"), MaspEvent(1, "p2")>>
    /\ xres = Err("Couldn't deserialize masp tx to a valid ibc message")

InBlockOrder(ps) ==
    [k \in 1..Cardinality(ps) |->
        CHOOSE i \in ps : Cardinality({j \in ps : j < i}) = k - 1]

\* C35: for block results that were read and whose masp indexes are well
\* formed, get_indexed_masp_events_at_height gives None when the block has
\* no end-block event list, and otherwise exactly the events that carry a
\* masp index not below the floor (0 without a floor), in the order of the
\* block, each paired with its index.
C35_IndexedEventsAtHeight ==
    ( /\ xarg.kind = "Request"
      /\ xarg.block.st # "rpcerr"
      /\ \A i \in 1..Len(xarg.block.evs) : xarg.block.evs[i].masp[1] # "bad" ) =>
        LET r == GetIndexedMaspEventsAtHeight(xarg.block, xarg.floor)
            kept == InBlockOrder(Remaining)
        IN  IF xarg.block.st = "noevents"
            THEN r.tag = "None"
            ELSE /\ r.tag = "Some"
                 /\ Len(r.evs) = Len(kept)
                 /\ \A k \in 1..Len(kept) :
                        r.evs[k] = <<xarg.block.evs[kept[k]].masp[2], xarg.block.evs[kept[k]]>>

\* An envelope in the request context over a block whose first event has
\* no masp index: the event after it was the first one returned, and its
\* payload was extracted.
C35_Witness ==
    /\ xpc = "done"
    /\ EnvelopeRequest
    /\ xarg.block.evs = <<NoEvent, MaspEvent(1, "p1")>>
    /\ xarg.floor = <<"some", 1>>
    /\ xres = Ok({"k1"}, "p1")

\* C36: a Transfer whose shielded hash is missing, leads to no section of
\* the Tx, or leads to a section that is no masp Transaction returns the
\* error of that lookup whatever the context holds: the data is not tried
\* as an inter-chain message.
C36_TransferWithoutPayloadIsError ==
    ( /\ xpc = "done"
      /\ DataPath
      /\ xtx.data.kind = "transfer"
      /\ xtx.data.ref \notin Payloads ) =>
        xres = Err(CASE xtx.data.ref = "none" -> "Missing masp section hash"
                     [] xtx.data.ref = "absent" -> "Missing masp section in transaction"
                     [] xtx.data.ref = "other" -> "Missing masp transaction")

\* A Transfer without shielded hash, called with an event that carries a
\* shielded transfer: the missing hash error was returned.
C36_Witness ==
    /\ xpc = "done"
    /\ DataPath
    /\ xtx.data = [kind |-> "transfer", ref |-> "none"]
    /\ xarg.kind = "Event"
    /\ xarg.ev.inner = [st |-> "ok", keys |-> {"k1"}, ibc |-> <<"p2", "p1">>]
    /\ xres = Err("Missing masp section hash")

(***************************************************************************)
(* Properties of the events.                                               *)
(***************************************************************************)
\* The positions of the chain whose extension writes the attribute key k.
Writers(k) == {i \in 1..Len(evChain) : evChain[i].kind # "Domain" /\ Key(evChain[i]) = k}

\* The chain with the extensions at i and i + 1 exchanged.
Swapped(i) ==
    [j \in 1..Len(evChain) |->
        IF j = i THEN evChain[i + 1] ELSE IF j = i + 1 THEN evChain[i] ELSE evChain[j]]

\* The chain without the extension at i.
Without(i) == SubSeq(evChain, 1, i - 1) \o SubSeq(evChain, i + 1, Len(evChain))

\* C29: the attributes of a composed event are the base's attributes with
\* every key an extension writes set to the value of the last extension
\* writing it; two neighbouring extensions of distinct keys can be
\* exchanged, and an extension given twice in a row counts once.
C29_CompositionOverwritesInOrder ==
    evpc = "done" =>
        /\ \A k \in Keys :
              evOut.attrs[k] =
                  IF Writers(k) = {}
                  THEN evBase.attrs[k]
                  ELSE ValueString(evChain[CHOOSE i \in Writers(k) : \A j \in Writers(k) : j <= i])
        /\ \A i \in 1..(Len(evChain) - 1) :
              /\ (/\ evChain[i].kind # "Domain"
                  /\ evChain[i + 1].kind # "Domain"
                  /\ Key(evChain[i]) # Key(evChain[i + 1])) =>
                    IntoEvent(evBase, Swapped(i)).attrs = evOut.attrs
              /\ evChain[i] = evChain[i + 1] =>
                    IntoEvent(evBase, Without(i)).attrs = evOut.attrs

\* A base with a log attribute composed with two logs and a height: the
\* last log and the height, printed in decimal, are kept.
C29_Witness ==
    /\ evpc = "done"
    /\ evBase.attrs["log"] = "old"
    /\ evChain = <<Log("dejavu"), Height(300), Log("last")>>
    /\ evOut.attrs = [log |-> "last", info |-> Absent, height |-> "300"]

\* The items of the dispatch list whose attribute is in the map.
PresentItems == SelectSeq(dispatchList, LAMBDA i : dAttributes[Key([kind |-> i.data])] # Absent)

\* The positions of PresentItems at which the callback returns Break.
BreakPositions == {i \in 1..Len(PresentItems) : PresentItems[i].kind \in dispatchBreaks}

\* The kinds the callback is to see: those of the present items in list
\* order, up to and including the first that makes it return Break.
ExpectedDispatch ==
    LET upto == IF BreakPositions = {}
                THEN Len(PresentItems)
                ELSE CHOOSE i \in BreakPositions : \A j \in BreakPositions : i <= j
    IN  [i \in 1..upto |-> PresentItems[i].kind]

\* C30: dispatch_attribute invokes the callback with the kinds of the
\* list whose attribute is present, in list order, never with a kind
\* whose attribute is absent, and visits nothing after a Break.
C30_DispatchPresentInOrder ==
    /\ dpc = "returned" => dispatched = ExpectedDispatch
    /\ Len(dispatched) <= Len(ExpectedDispatch)
    /\ \A i \in 1..Len(dispatched) : dispatched[i] = ExpectedDispatch[i]

\* The first item's attribute is absent, the second makes the callback
\* break, the third, present as well, is never visited.
C30_Witness ==
    /\ dpc = "returned"
    /\ dispatchList = <<[kind |-> "KLog", data |-> "Log"], [kind |-> "KInfo", data |-> "Info"],
                        [kind |-> "KHeight", data |-> "Height"]>>
    /\ dAttributes = [log |-> Absent, info |-> "old", height |-> "old"]
    /\ dispatched = <<"KInfo">>

(***************************************************************************)
(* Properties of the ledger components.                                    *)
(***************************************************************************)
\* How many times the id is in the list.
Occurrences(list, id) == Cardinality({i \in 1..Len(list) : list[i] = id})

\* C37: for every proposal id whose iteration has completed, the id is in
\* exactly one of the passed and rejected lists, once, as its tally says;
\* its result has been written; and its funds were moved exactly once:
\* transferred to the author when it passed and an author was found, and
\* burned otherwise.
C37_FundsSettledOncePerProposal ==
    \A id \in ProposalIds \ gov.todo :
        LET p == gov.props[id]
        IN  /\ Occurrences(gov.passed, id) + Occurrences(gov.rejected, id) = 1
            /\ Occurrences(gov.passed, id) = 1 <=> p.tally = "Passed"
            /\ gov.results[id] = p.tally
            /\ gov.transfers[id] + gov.burns[id] = 1
            /\ gov.transfers[id] = 1 <=> (p.tally = "Passed" /\ p.author)

\* The call returned Ok: the first proposal passed and its funds went to
\* its author, the second was rejected and its funds were burned.
C37_Witness ==
    /\ gov.pc = "returned"
    /\ gov.ret = "Ok"
    /\ gov.passed = <<1>>
    /\ gov.rejected = <<2>>
    /\ gov.transfers[1] = 1 /\ gov.burns[1] = 0
    /\ gov.transfers[2] = 0 /\ gov.burns[2] = 1

\* The transparent value pool of the call, asset by asset: the shielded
\* value balance, plus the amount when the source is not the pool, minus
\* the amount when the target is not the pool.
PoolValue(c, a) ==
    c.balance[a]
        + (IF ~c.source_masp /\ a = "now" THEN c.amount ELSE 0)
        - (IF ~c.target_masp /\ a = "now" THEN c.amount ELSE 0)

\* C38: validate_tx on a decoded transfer rejects a transfer without a
\* shielded hash and accepts none whose hash leads to no shielded
\* section; it rejects when the transparent value pool is below zero for
\* some asset; and it accepts only with a shielded section, a pool that
\* is at or above zero for every asset, and a successful verification.
C38_AcceptsOnlyBalanced ==
    (vp.pc = "done" /\ vp.call.data = "transfer") =>
        LET c == vp.call
        IN  /\ c.ref = "none" => vp.res = "reject"
            /\ c.ref \notin Payloads => vp.res \in {"reject", "error"}
            /\ (c.ref \in Payloads /\ \E a \in Assets : PoolValue(c, a) < 0) =>
                    vp.res = "reject"
            /\ vp.res = "accept" =>
                    /\ c.ref \in Payloads
                    /\ \A a \in Assets : PoolValue(c, a) >= 0
                    /\ c.verify

\* A shielding transfer was accepted: the shielded section takes one
\* unit of the current asset in, the source outside the pool provides it.
C38_Witness ==
    /\ vp.pc = "done"
    /\ vp.res = "accept"
    /\ vp.call.balance = [a \in Assets |-> IF a = "now" THEN -1 ELSE 0]
    /\ vp.call.amount = 1
    /\ ~vp.call.source_masp
    /\ vp.call.target_masp

\* C39: for Accepted, Applied, Proposal, PgfPayment, EthereumBridge and
\* the Ibc types of update_client, send_packet and write_acknowledgement,
\* parsing the string Display produced gives back the same EventType.
C39_EventTypeRoundTrip ==
    ( /\ ety.pc = "parsed"
      /\ ety.event.event_type.kind = "Ibc" => ety.event.event_type.t \in IbcKinds ) =>
        ety.parsed = ParsedType(ety.event.event_type)

\* C40: cmp of two IbcEvents is Equal exactly when they are equal.
C40_OrderConsistentWithEquality ==
    ibc.pc = "done" => (ibc.ord = "Equal" <=> ibc.eq)

=============================================================================
